---- MODULE Spec2Model ----
(***************************************************************************)
(* Connection and session-protocol subsystem of the DungeoGo server:       *)
(* Client (pkg/server/client.go), SessionHandler (session driver) and      *)
(* ConnectionManager (registry, acceptor, reaper).                         *)
(*                                                                         *)
(* Spec      every mutex-guarded method call and every registry critical   *)
(*           section is one atomic step; the driver, the accept loop, the  *)
(*           reaper, Stop and the registry API interleave freely.          *)
(***************************************************************************)
EXTENDS Integers, Sequences, FiniteSets, TLC

\* ------------------------------------------------------------------ bounds
\* Largest cm.maxClients passed to NewConnectionManager.
MaxClients == 2
\* Number of connection attempts the environment makes.
NumConns == 2
\* Records the registry of the GetStats model ever holds.
MaxRecords == 2

Conns == 1..NumConns
NoClient == 0

\* The tasks of the server: the accept loop (Start), the reaper
\* (cleanupClients), Stop, a caller of the exported registry operations and
\* one HandleClient task per connection.
TAccept == <<"accept", 0>>
TReaper == <<"reaper", 0>>
TStop == <<"stop", 0>>
TCaller == <<"caller", 0>>
DriverTask(c) == <<"driver", c>>
Tasks == {TAccept, TReaper, TStop, TCaller} \cup {DriverTask(c) : c \in Conns}

\* ------------------------------------------------------------ client states
StateConnected == "Connected"
StateAuthenticating == "Authenticating"
StateCreatingAccount == "CreatingAccount"
StateConfirmingPassword == "ConfirmingPassword"
StateCharacterSelection == "CharacterSelection"
StateInGame == "InGame"
StateDisconnecting == "Disconnecting"

ClientState ==
    {StateConnected, StateAuthenticating, StateCreatingAccount,
     StateConfirmingPassword, StateCharacterSelection, StateInGame,
     StateDisconnecting}

\* --------------------------------------------------------- external stores
\* Player ids: p1 and p2 exist at start, p3 is the id NewPlayer draws for the
\* one account that can still be created.
PlayerIDs == {"p1", "p2", "p3"}
Usernames == {"alice", "mallory", "bob"}
NoPlayer == [id |-> "", active |-> FALSE, password |-> "", email |-> ""]

InitPlayers ==
    [u \in Usernames |->
        CASE u = "alice"   -> [id |-> "p1", active |-> TRUE,  password |-> "secret1", email |-> "a@b.com"]
          [] u = "mallory" -> [id |-> "p2", active |-> FALSE, password |-> "secret1", email |-> "m@b.com"]
          [] OTHER         -> NoPlayer]

CharNames == {"hero", "nova"}
NoCharacter == [id |-> "", owner |-> ""]
InitCharacters ==
    [n \in CharNames |->
        IF n = "hero" THEN [id |-> "ch1", owner |-> "p1"] ELSE NoCharacter]

VARIABLES
    \* ConnectionManager
    clients,        \* keys of cm.clients (connection ids)
    playerClients,  \* cm.playerClients: player id -> connection id or NoClient
    maxClients,     \* cm.maxClients
    running,        \* cm.running
    listenerOpen,   \* cm.listener is bound and not closed
    \* Client records, one per accepted and registered connection
    client,         \* connection id -> fields of the Client
    created,        \* connection ids for which NewClient has run
    \* Start (accept loop)
    pcAccept, nextConn, pendingConn, rejected,
    \* cleanupClients (reaper)
    pcReaper, toRemove,
    \* Stop
    pcStop,
    \* HandleClient, one task per created client
    pcDriver, dispatched,
    line,           \* connection id -> the line its handler is running on
    sent,           \* connection id -> what the Send and SendPrompt calls of
                    \* its last handler call (or of the welcome) returned
    \* stores
    players, characters,
    \* history
    authOrder,      \* connections in the order they completed authentication
    evicted,        \* records whose stream RegisterPlayerClient closed
    \* the same operations at the granularity of their lock operations
    tpc,            \* task -> the step it is about to take
    tcur,           \* task -> the record its current call works on
    tset,           \* task -> the records its loop has still to visit
    tout,           \* task -> the records its loop has collected
    held,           \* task -> the locks it holds, in the order it took them
    stalled,        \* the connections whose peer has stopped reading
    \* one call of ReadPassword, byte by byte
    rp,             \* its position, its input, its line, its writes, its result
    \* one HandleClient goroutine, its peer and the clock
    hc,             \* loop position, lines arrived and read, handlers, lastActive
    \* one call of GetStats beside the tasks that change the records
    gs              \* the registry, the records' states, the call's position and counts

regVars == <<clients, playerClients, maxClients, running, listenerOpen>>
recVars == <<client, created, authOrder, evicted>>
acceptVars == <<pcAccept, nextConn, pendingConn, rejected>>
reaperVars == <<pcReaper, toRemove>>
driverLog == <<line, sent>>
driverVars == <<pcDriver, dispatched, driverLog>>
storeVars == <<players, characters>>
lockVars == <<tpc, tcur, tset, tout, held, stalled>>

vars == <<regVars, recVars, acceptVars, reaperVars, pcStop, driverVars, storeVars,
          lockVars, rp, hc, gs>>

\* ------------------------------------------------------------------ Client
NewClient ==
    [connected |-> TRUE, state |-> StateConnected, playerID |-> "",
     characterID |-> "", tempUsername |-> "", tempPassword |-> "",
     tempEmail |-> "", idle |-> FALSE, streamCloses |-> 0]

NoRecord ==
    [connected |-> FALSE, state |-> StateDisconnecting, playerID |-> "",
     characterID |-> "", tempUsername |-> "", tempPassword |-> "",
     tempEmail |-> "", idle |-> FALSE, streamCloses |-> 0]

IsConnected(r) == r.connected

\* A Close that does not look at connected first.
CloseUnguarded(r) ==
    [r EXCEPT !.connected = FALSE, !.state = StateDisconnecting,
              !.streamCloses = @ + 1]

\* Close; streamCloses counts the calls of c.conn.Close().
Close(r) ==
    IF ~r.connected THEN r
    ELSE [r EXCEPT !.connected = FALSE, !.state = StateDisconnecting,
                   !.streamCloses = @ + 1]

GetState(r) == r.state
SetState(r, s) == [r EXCEPT !.state = s]
GetPlayerID(r) == r.playerID
SetPlayerID(r, p) == [r EXCEPT !.playerID = p]
GetCharacterID(r) == r.characterID
SetCharacterID(r, ch) == [r EXCEPT !.characterID = ch]
SetTempUsername(r, u) == [r EXCEPT !.tempUsername = u]
SetTempPassword(r, p) == [r EXCEPT !.tempPassword = p]
SetTempEmail(r, e) == [r EXCEPT !.tempEmail = e]
ClearTempData(r) ==
    [r EXCEPT !.tempUsername = "", !.tempPassword = "", !.tempEmail = ""]

\* lastActive = time.Now(): the record is no longer idle.
updateLastActive(r) == [r EXCEPT !.idle = FALSE]
\* time.Since(lastActive) > timeout
IsIdle(r) == r.idle


\* ---------------------------------------------------------- SessionHandler
\* strings.TrimSpace on the input lines the model draws.
TrimSpace(s) ==
    CASE s \in {" ", "   "} -> ""
      [] s = "abc   "      -> "abc"
      [] s = "secret1 "    -> "secret1"
      [] OTHER             -> s

\* emailRegex.MatchString on the input lines the model draws.
ValidEmail(s) == s \in {"a@b.com", "b@c.com"}

\* strings.Fields on the character-selection lines the model draws.
Fields(s) ==
    CASE s = "list"                      -> <<"list">>
      [] s = "select"                    -> <<"select">>
      [] s = "select hero"               -> <<"select", "hero">>
      [] s = "S HERO"                    -> <<"S", "HERO">>
      [] s = "select nova"               -> <<"select", "nova">>
      [] s = "create nova human warrior" -> <<"create", "nova", "human", "warrior">>
      [] s = "create nova orc warrior"   -> <<"create", "nova", "orc", "warrior">>
      [] s = "create nova"               -> <<"create", "nova">>
      [] s = "delete hero"               -> <<"delete", "hero">>
      [] s = "quit"                      -> <<"quit">>
      [] s = "dance"                     -> <<"dance">>
      [] OTHER                           -> <<>>

\* strings.ToLower on the words the model draws.
ToLower(w) ==
    CASE w = "S" -> "s"
      [] w = "HERO" -> "hero"
      [] OTHER -> w

EqualFold(a, b) == ToLower(a) = ToLower(b)

\* character.GetRaceByID / GetClassByID succeed.
ValidRace(w) == w \in {"human", "elf", "dwarf"}
ValidClass(w) == w \in {"warrior", "mage", "rogue"}

\* player.NewPlayer draws a fresh uuid.
NewPlayerID == "p3"

\* Players().GetPlayerByUsername returns a player and no error.
FoundByUsername(username, dbErr) ==
    ~dbErr /\ username \in Usernames /\ players[username] # NoPlayer

\* Players().GetPlayer(id) returns a player and no error.
FoundByID(id, dbErr) ==
    ~dbErr /\ \E u \in Usernames : players[u] # NoPlayer /\ players[u].id = id

PlayerByID(id) ==
    players[CHOOSE u \in Usernames : players[u] # NoPlayer /\ players[u].id = id]

\* Players().GetPlayerByEmail returns a player and no error.
FoundByEmail(email, dbErr) ==
    ~dbErr /\ \E u \in Usernames : players[u] # NoPlayer /\ players[u].email = email

\* Players().CreatePlayer succeeds: username and email are UNIQUE columns.
CreatePlayerOK(username, email, dbErr) ==
    /\ ~dbErr
    /\ username \in Usernames
    /\ players[username] = NoPlayer
    /\ ~\E u \in Usernames : players[u] # NoPlayer /\ players[u].email = email

\* bcrypt.CompareHashAndPassword(hash, password) == nil, the hash of a password
\* being modelled by the password it was generated from.
PasswordMatches(hash, password) == hash = password

\* Characters().GetCharactersByPlayer(playerID): the names owned.
CharactersByPlayer(pid) ==
    {n \in CharNames : characters[n] # NoCharacter /\ characters[n].owner = pid}

\* Characters().CreateCharacter succeeds: id is a UUID column, name is UNIQUE.
CreateCharacterOK(ch, name, dbErr) ==
    ~dbErr /\ ch.id # "" /\ name \in CharNames /\ characters[name] = NoCharacter

\* handleLogin without its IsActive test.
handleLoginNoSuspension(r, input, dbErr) ==
    LET username == TrimSpace(input) IN
    IF username = "" THEN r
    ELSE IF ~FoundByUsername(username, dbErr)
         THEN SetState(SetTempUsername(r, username), StateCreatingAccount)
    ELSE SetPlayerID(SetState(r, StateAuthenticating), players[username].id)

handleLogin(r, input, dbErr) ==
    LET username == TrimSpace(input) IN
    IF username = "" THEN r
    ELSE IF ~FoundByUsername(username, dbErr)
         THEN SetState(SetTempUsername(r, username), StateCreatingAccount)
    ELSE IF ~players[username].active THEN Close(r)
    ELSE SetPlayerID(SetState(r, StateAuthenticating), players[username].id)

\* handlePasswordAuth without the comparison of the password.
handlePasswordAuthNoCompare(r, input, dbErr) ==
    LET password == TrimSpace(input)
        playerID == GetPlayerID(r)
    IN
    IF password = "" THEN r
    ELSE IF playerID = "" THEN Close(r)
    ELSE IF ~FoundByID(playerID, dbErr) THEN Close(r)
    ELSE SetState(r, StateCharacterSelection)

\* handlePasswordAuth returning after "Invalid password." with the record open.
handlePasswordAuthRetry(r, input, dbErr) ==
    LET password == TrimSpace(input)
        playerID == GetPlayerID(r)
    IN
    IF password = "" THEN r
    ELSE IF playerID = "" THEN Close(r)
    ELSE IF ~FoundByID(playerID, dbErr) THEN Close(r)
    ELSE IF ~PasswordMatches(PlayerByID(playerID).password, password) THEN r
    ELSE SetState(r, StateCharacterSelection)

handlePasswordAuth(r, input, dbErr) ==
    LET password == TrimSpace(input)
        playerID == GetPlayerID(r)
    IN
    IF password = "" THEN r
    ELSE IF playerID = "" THEN Close(r)
    ELSE IF ~FoundByID(playerID, dbErr) THEN Close(r)
    ELSE IF ~PasswordMatches(PlayerByID(playerID).password, password) THEN Close(r)
    ELSE SetState(r, StateCharacterSelection)

handleAccountCreation(r, input, dbErr) ==
    LET email == TrimSpace(input) IN
    IF email = "" THEN r
    ELSE IF ~ValidEmail(email) THEN r
    ELSE IF FoundByEmail(email, dbErr) THEN Close(r)
    ELSE SetState(SetTempEmail(r, email), StateConfirmingPassword)

\* createAccount without its client.SetPlayerID(newPlayer.ID).
createAccountNoPlayerID(r, hashErr, dbErr) ==
    IF hashErr THEN Close(r)
    ELSE IF ~CreatePlayerOK(r.tempUsername, r.tempEmail, dbErr) THEN Close(r)
    ELSE SetState(ClearTempData(r), StateCharacterSelection)

\* createAccount: the record it leaves.
createAccount(r, hashErr, dbErr) ==
    IF hashErr THEN Close(r)
    ELSE IF ~CreatePlayerOK(r.tempUsername, r.tempEmail, dbErr) THEN Close(r)
    ELSE SetState(SetPlayerID(ClearTempData(r), NewPlayerID), StateCharacterSelection)

\* createAccount: the player store it leaves.
createAccountStore(r, hashErr, dbErr) ==
    IF ~hashErr /\ CreatePlayerOK(r.tempUsername, r.tempEmail, dbErr)
    THEN [players EXCEPT ![r.tempUsername] =
            [id |-> NewPlayerID, active |-> TRUE,
             password |-> r.tempPassword, email |-> r.tempEmail]]
    ELSE players

\* TRUE when handlePasswordConfirmation reaches createAccount.
ConfirmationMatches(r, input) ==
    r.tempPassword # "" /\ r.tempPassword = TrimSpace(input)

\* handlePasswordConfirmation without the test of the length.
handlePasswordConfirmationAnyLength(r, input, hashErr, dbErr) ==
    LET password == TrimSpace(input) IN
    IF r.tempPassword = ""
    THEN SetTempPassword(r, password)
    ELSE IF r.tempPassword # password THEN SetTempPassword(r, "")
    ELSE createAccount(r, hashErr, dbErr)

\* handlePasswordConfirmation clearing every pending field on a mismatch.
handlePasswordConfirmationClearAll(r, input, hashErr, dbErr) ==
    LET password == TrimSpace(input) IN
    IF r.tempPassword = ""
    THEN IF Len(password) < 6 THEN r ELSE SetTempPassword(r, password)
    ELSE IF r.tempPassword # password THEN ClearTempData(r)
    ELSE createAccount(r, hashErr, dbErr)

\* handlePasswordConfirmation closing the record on a mismatch.
handlePasswordConfirmationClose(r, input, hashErr, dbErr) ==
    LET password == TrimSpace(input) IN
    IF r.tempPassword = ""
    THEN IF Len(password) < 6 THEN r ELSE SetTempPassword(r, password)
    ELSE IF r.tempPassword # password THEN Close(SetTempPassword(r, ""))
    ELSE createAccount(r, hashErr, dbErr)

handlePasswordConfirmation(r, input, hashErr, dbErr) ==
    LET password == TrimSpace(input) IN
    IF r.tempPassword = ""
    THEN IF Len(password) < 6 THEN r ELSE SetTempPassword(r, password)
    ELSE IF r.tempPassword # password THEN SetTempPassword(r, "")
    ELSE createAccount(r, hashErr, dbErr)

\* selectCharacter without its client.SetCharacterID(char.ID).
selectCharacterNoCharacterID(r, name, dbErr) ==
    IF dbErr THEN r
    ELSE LET found == {n \in CharactersByPlayer(GetPlayerID(r)) : EqualFold(n, name)} IN
         IF found = {} THEN r ELSE SetState(r, StateInGame)

selectCharacter(r, name, dbErr) ==
    IF dbErr THEN r
    ELSE LET found == {n \in CharactersByPlayer(GetPlayerID(r)) : EqualFold(n, name)} IN
         IF found = {} THEN r
         ELSE SetState(SetCharacterID(r, characters[CHOOSE n \in found : TRUE].id),
                       StateInGame)

\* character.NewCharacter leaves ID unset; createCharacter changes no field of
\* the record, only (on success) the character store.
createCharacterStore(r, name, raceStr, classStr, dbErr) ==
    LET newChar == [id |-> "", owner |-> GetPlayerID(r)] IN
    IF ValidRace(ToLower(raceStr)) /\ ValidClass(ToLower(classStr))
       /\ CreateCharacterOK(newChar, name, dbErr)
    THEN [characters EXCEPT ![name] = newChar]
    ELSE characters

handleCharacterSelection(r, input, dbErr) ==
    LET parts == Fields(TrimSpace(input))
        command == IF Len(parts) = 0 THEN "" ELSE ToLower(parts[1])
    IN
    IF Len(parts) = 0 THEN r
    ELSE IF command \in {"select", "s"}
         THEN IF Len(parts) < 2 THEN r ELSE selectCharacter(r, parts[2], dbErr)
    ELSE IF command \in {"quit", "q"} THEN Close(r)
    ELSE r

handleCharacterSelectionStore(r, input, dbErr) ==
    LET parts == Fields(TrimSpace(input))
        command == IF Len(parts) = 0 THEN "" ELSE ToLower(parts[1])
    IN
    IF command \in {"create", "c"} /\ Len(parts) >= 4
    THEN createCharacterStore(r, parts[2], parts[3], parts[4], dbErr)
    ELSE characters

\* handleGameCommand closing the record when the engine fails.
handleGameCommandFatal(r, input, engineErr) ==
    IF GetCharacterID(r) = "" THEN SetState(r, StateCharacterSelection)
    ELSE IF engineErr THEN Close(r)
    ELSE r

handleGameCommand(r, input, engineErr) ==
    IF GetCharacterID(r) = "" THEN SetState(r, StateCharacterSelection)
    ELSE r


\* ------------------------------------------------- what the handlers send
ErrClientDisconnected == "client is disconnected"

\* A Send that does not look at connected first.
SendUnguarded(r, message) ==
    [err |-> "", wrote |-> message \o <<"\r\n">>]

\* Send(message) on record r: the error it returns ("" for nil) and the
\* pieces it writes to the stream. A message is the sequence of its pieces: a
\* literal, or a format and its arguments.
Send(r, message) ==
    IF ~r.connected
    THEN [err |-> ErrClientDisconnected, wrote |-> <<>>]
    ELSE [err |-> "", wrote |-> message \o <<"\r\n">>]

\* SendPrompt(prompt) on record r.
SendPrompt(r, prompt) ==
    IF ~r.connected
    THEN [err |-> ErrClientDisconnected, wrote |-> <<>>]
    ELSE [err |-> "", wrote |-> prompt]

\* The calls a handler makes, in order.
S(text) == [call |-> "Send", text |-> <<text>>]
Sf(format, arg) == [call |-> "Send", text |-> <<format, arg>>]
P(text) == [call |-> "SendPrompt", text |-> <<text>>]

\* What the calls return on record r. Every handler makes its calls before
\* its own Close.
Returned(r, calls) ==
    [i \in 1..Len(calls) |->
        IF calls[i].call = "Send" THEN Send(r, calls[i].text)
        ELSE SendPrompt(r, calls[i].text)]

\* HandleClient before its loop.
welcomeSends ==
    <<S("Welcome to DungeoGo!"), S("Please enter your username:"), P("> ")>>

showCharacterMenuSends ==
    <<S("\n--- Character Selection ---"),
      S("Commands:"),
      S("  list (l)                 - List your characters"),
      S("  select (s) <name>        - Enter game with character"),
      S("  create (c) <name> <race> <class> - Create new character"),
      S("  delete (d) <name>        - Delete character"),
      S("  quit (q)                 - Disconnect"),
      S(""),
      P("Character> ")>>

handleLoginSends(r, input, dbErr) ==
    LET username == TrimSpace(input) IN
    IF username = ""
    THEN <<S("Username cannot be empty. Please enter your username:"), P("> ")>>
    ELSE IF ~FoundByUsername(username, dbErr)
         THEN <<Sf("New player! Creating account for: ", username),
                S("Please enter your email address:"),
                P("Email: ")>>
    ELSE IF ~players[username].active
         THEN <<S("Your account has been suspended. Please contact an administrator.")>>
    ELSE <<S("Please enter your password:")>>

\* The username of the player with this id.
UsernameByID(id) == CHOOSE u \in Usernames : players[u].id = id

handlePasswordAuthSends(r, input, dbErr) ==
    LET password == TrimSpace(input)
        playerID == GetPlayerID(r)
    IN
    IF password = ""
    THEN <<S("Password cannot be empty. Please enter your password:"),
           P("Password: ")>>
    ELSE IF playerID = "" THEN <<S("Account creation not fully implemented yet.")>>
    ELSE IF ~FoundByID(playerID, dbErr) THEN <<S("Authentication failed.")>>
    ELSE IF ~PasswordMatches(PlayerByID(playerID).password, password)
         THEN <<S("Invalid password.")>>
    ELSE <<Sf("Welcome back, %s!", UsernameByID(playerID))>> \o showCharacterMenuSends

handleAccountCreationSends(r, input, dbErr) ==
    LET email == TrimSpace(input) IN
    IF email = ""
    THEN <<S("Email cannot be empty. Please enter your email address:"),
           P("Email: ")>>
    ELSE IF ~ValidEmail(email)
         THEN <<S("Invalid email format. Please enter a valid email address:"),
                P("Email: ")>>
    ELSE IF FoundByEmail(email, dbErr)
         THEN <<S("An account with this email already exists."),
                S("Please try logging in or use a different email address.")>>
    ELSE <<S("Please choose a password (minimum 6 characters):")>>

createAccountSends(r, hashErr, dbErr) ==
    IF hashErr THEN <<S("Failed to create account due to internal error.")>>
    ELSE IF ~CreatePlayerOK(r.tempUsername, r.tempEmail, dbErr)
         THEN <<S("Failed to create account. Username might already be taken.")>>
    ELSE <<Sf("Account created successfully! Welcome to DungeoGo, %s!",
              r.tempUsername)>> \o showCharacterMenuSends

handlePasswordConfirmationSends(r, input, hashErr, dbErr) ==
    LET password == TrimSpace(input) IN
    IF r.tempPassword = ""
    THEN IF Len(password) < 6
         THEN <<S("Password must be at least 6 characters long."),
                S("Please choose a password (minimum 6 characters):")>>
         ELSE <<S("Please confirm your password:")>>
    ELSE IF r.tempPassword # password
         THEN <<S("Passwords do not match."),
                S("Please choose a password (minimum 6 characters):")>>
    ELSE createAccountSends(r, hashErr, dbErr)

\* One row of listCharacters for each name of a set, in the order of the names.
RECURSIVE characterRows(_)
characterRows(names) ==
    IF names = {} THEN <<>>
    ELSE LET n == CHOOSE x \in names : \A y \in names : x = y \/ x \in {"hero"}
         IN  <<Sf("%-14s %-9s %-9s %-6d %-9s %s", n)>> \o characterRows(names \ {n})

listCharactersSends(r, dbErr) ==
    IF dbErr THEN <<S("Error retrieving characters.")>>
    ELSE IF CharactersByPlayer(GetPlayerID(r)) = {}
         THEN <<S("You have no characters. Use 'create <name> <race> <class>' to create one.")>>
    ELSE <<S("\nYour Characters:"),
           S("Name           Race      Class     Level  Status    Last Played"),
           S("--------------------------------------------------------------")>>
         \o characterRows(CharactersByPlayer(GetPlayerID(r)))
         \o <<S("")>>

selectCharacterSends(r, name, dbErr) ==
    IF dbErr THEN <<S("Error retrieving characters.")>>
    ELSE LET found == {n \in CharactersByPlayer(GetPlayerID(r)) : EqualFold(n, name)} IN
         IF found = {} THEN <<Sf("Character '%s' not found.", name)>>
         ELSE <<Sf("Welcome, %s!", CHOOSE n \in found : TRUE),
                S("You enter the game world..."),
                P("> ")>>

createCharacterSends(r, name, raceStr, classStr, dbErr) ==
    IF ~ValidRace(ToLower(raceStr))
    THEN <<Sf("Invalid race: %s", raceStr), S("Available races: human, elf, dwarf")>>
    ELSE IF ~ValidClass(ToLower(classStr))
         THEN <<Sf("Invalid class: %s", classStr),
                S("Available classes: warrior, mage, rogue")>>
    ELSE IF ~CreateCharacterOK([id |-> "", owner |-> GetPlayerID(r)], name, dbErr)
         THEN <<S("Error creating character. Name might already be taken.")>>
    ELSE <<Sf("Character '%s' created successfully!", name)>>

handleCharacterSelectionSends(r, input, dbErr) ==
    LET parts == Fields(TrimSpace(input))
        command == IF Len(parts) = 0 THEN "" ELSE ToLower(parts[1])
        answer ==
            IF command \in {"list", "l"} THEN listCharactersSends(r, dbErr)
            ELSE IF command \in {"select", "s"}
                 THEN IF Len(parts) < 2 THEN <<S("Usage: select <character_name>")>>
                      ELSE selectCharacterSends(r, parts[2], dbErr)
            ELSE IF command \in {"create", "c"}
                 THEN IF Len(parts) < 4
                      THEN <<S("Usage: create <name> <race> <class>")>>
                      ELSE createCharacterSends(r, parts[2], parts[3], parts[4], dbErr)
            ELSE IF command \in {"delete", "d"}
                 THEN IF Len(parts) < 2 THEN <<S("Usage: delete <character_name>")>>
                      ELSE <<S("Character deletion not implemented yet.")>>
            ELSE IF command \in {"quit", "q"} THEN <<S("Goodbye!")>>
            ELSE <<S("Unknown command. Type 'list' to see your characters.")>>
    IN
    IF Len(parts) = 0 THEN showCharacterMenuSends
    ELSE answer \o
         (IF GetState(handleCharacterSelection(r, input, dbErr)) = StateCharacterSelection
          THEN <<P("Character> ")>> ELSE <<>>)

\* The game engine answers a command with one response, or fails.
handleGameCommandSends(r, input, engineErr) ==
    IF GetCharacterID(r) = ""
    THEN <<S("Error: No character selected.")>> \o showCharacterMenuSends
    ELSE (IF engineErr THEN <<Sf("Error: %v", "engine error")>>
          ELSE <<Sf("response to %s", input)>>) \o <<P("> ")>>

\* The calls of the handler the switch chose for state s.
HandledSends(r, s, l, dbErr, hashErr) ==
    CASE s = StateConnected          -> handleLoginSends(r, l, dbErr)
      [] s = StateAuthenticating     -> handlePasswordAuthSends(r, l, dbErr)
      [] s = StateCreatingAccount    -> handleAccountCreationSends(r, l, dbErr)
      [] s = StateConfirmingPassword ->
            handlePasswordConfirmationSends(r, l, hashErr, dbErr)
      [] s = StateCharacterSelection -> handleCharacterSelectionSends(r, l, dbErr)
      [] s = StateInGame             -> handleGameCommandSends(r, l, dbErr)
      [] OTHER                       -> <<>>

\* Input lines the peer may send while the record is in state s: one line per
\* branch of the handler of s.
InputsFor(s) ==
    CASE s = StateConnected          -> {"", " ", "alice", "mallory", "bob"}
      [] s = StateAuthenticating     -> {"", "   ", "secret1", "secret1 ", "wrong11"}
      [] s = StateCreatingAccount    -> {"", "notanemail", "a@b.com", "b@c.com"}
      [] s = StateConfirmingPassword ->
            {"", "abc", "abc   ", "secret1", "secret1 ", "secret2"}
      [] s = StateCharacterSelection ->
            {"", "list", "select", "select hero", "S HERO", "select nova",
             "create nova human warrior", "create nova orc warrior",
             "create nova", "delete hero", "quit", "dance"}
      [] s = StateInGame             -> {"look"}
      [] OTHER                       -> {}

\* The lines of a peer that logs in to the existing account and plays.
LoginInputs(s) ==
    CASE s = StateConnected          -> {"alice"}
      [] s = StateAuthenticating     -> {"secret1", "wrong11"}
      [] s = StateCharacterSelection -> {"select hero", "quit"}
      [] s = StateInGame             -> {"look"}
      [] OTHER                       -> {}

\* HandleClient: the welcome and the first prompt.
HandleClientWelcome(c) ==
    /\ pcDriver[c] = "welcome"
    /\ sent' = [sent EXCEPT ![c] = Returned(client[c], welcomeSends)]
    /\ pcDriver' = [pcDriver EXCEPT ![c] = "loop"]
    /\ UNCHANGED <<regVars, recVars, acceptVars, reaperVars, pcStop, dispatched,
                   line, storeVars, lockVars, rp, hc, gs>>

\* HandleClient: `for
\* client.IsConnected()` and the read begins (updateLastActive); a false
\* condition leaves the loop and the deferred Close finds the record closed.
HandleClientLoop(c) ==
    /\ pcDriver[c] = "loop"
    /\ IF ~IsConnected(client[c])
       THEN /\ pcDriver' = [pcDriver EXCEPT ![c] = "done"]
            /\ client' = [client EXCEPT ![c] = Close(@)]
       ELSE /\ pcDriver' = [pcDriver EXCEPT ![c] = "read"]
            /\ client' = [client EXCEPT ![c] = updateLastActive(@)]
    /\ UNCHANGED <<regVars, created, authOrder, evicted, acceptVars,
                   reaperVars, pcStop, dispatched, driverLog, storeVars, lockVars, rp, hc, gs>>

\* HandleClient: the blocked read returns a line, which the switch on
\* client.GetState() dispatches. In[s] are the lines the peer may send.
HandleClientRead(c, In) ==
    /\ pcDriver[c] = "read"
    /\ IsConnected(client[c])
    /\ \E l \in In[GetState(client[c])] : line' = [line EXCEPT ![c] = l]
    /\ sent' = [sent EXCEPT ![c] = <<>>]
    /\ dispatched' = [dispatched EXCEPT ![c] = GetState(client[c])]
    /\ pcDriver' = [pcDriver EXCEPT ![c] = "handle"]
    /\ UNCHANGED <<regVars, recVars, acceptVars, reaperVars, pcStop, storeVars, lockVars, rp, hc, gs>>

\* A read error that leaves the record open.
HandleClientReadErrorNoClose(c) ==
    /\ pcDriver[c] = "read"
    /\ pcDriver' = [pcDriver EXCEPT ![c] = "done"]
    /\ UNCHANGED <<regVars, recVars, acceptVars, reaperVars,
                   pcStop, dispatched, driverLog, storeVars, lockVars, rp, hc, gs>>

\* HandleClient: the read fails (the peer went away, or the stream was closed
\* by Close); the loop breaks and the deferred Close runs.
HandleClientReadError(c) ==
    /\ pcDriver[c] = "read"
    /\ pcDriver' = [pcDriver EXCEPT ![c] = "done"]
    /\ client' = [client EXCEPT ![c] = Close(@)]
    /\ UNCHANGED <<regVars, created, authOrder, evicted, acceptVars, reaperVars,
                   pcStop, dispatched, driverLog, storeVars, lockVars, rp, hc, gs>>

\* The handler the switch chose for state s, run on record r with line l.
Handled(r, s, l, dbErr, hashErr) ==
    CASE s = StateConnected          -> handleLogin(r, l, dbErr)
      [] s = StateAuthenticating     -> handlePasswordAuth(r, l, dbErr)
      [] s = StateCreatingAccount    -> handleAccountCreation(r, l, dbErr)
      [] s = StateConfirmingPassword -> handlePasswordConfirmation(r, l, hashErr, dbErr)
      [] s = StateCharacterSelection -> handleCharacterSelection(r, l, dbErr)
      [] s = StateInGame             -> handleGameCommand(r, l, dbErr)
      [] OTHER                       -> r

\* HandleClient: the handler runs on the line that was read. Errs are the
\* failures the stores, the hash and the engine may report.
HandleClientHandle(c, In, Errs) ==
    /\ pcDriver[c] = "handle"
    /\ line[c] \in In[dispatched[c]]
    /\ \E dbErr \in Errs, hashErr \in Errs :
        LET r == client[c]
            s == dispatched[c]
            l == line[c]
        IN  /\ client' = [client EXCEPT ![c] = Handled(r, s, l, dbErr, hashErr)]
            /\ sent' = [sent EXCEPT ![c] =
                          Returned(r, HandledSends(r, s, l, dbErr, hashErr))]
            /\ players' =
                 IF s = StateConfirmingPassword /\ ConfirmationMatches(r, l)
                 THEN createAccountStore(r, hashErr, dbErr) ELSE players
            /\ characters' =
                 IF s = StateCharacterSelection
                 THEN handleCharacterSelectionStore(r, l, dbErr) ELSE characters
    /\ authOrder' =
         IF /\ dispatched[c] \in {StateAuthenticating, StateConfirmingPassword}
            /\ client'[c].state = StateCharacterSelection
            /\ client[c].state # StateCharacterSelection
         THEN Append(authOrder, c) ELSE authOrder
    /\ line' = [line EXCEPT ![c] = ""]
    /\ pcDriver' = [pcDriver EXCEPT ![c] = "loop"]
    /\ UNCHANGED <<regVars, created, evicted, acceptVars, reaperVars, pcStop,
                   dispatched, lockVars, rp, hc, gs>>

\* -------------------------------------------------------- ConnectionManager
getClientCount == Cardinality(clients)

\* A capacity test that lets one connection too many in.
ServerFullOffByOne == getClientCount > maxClients

\* Start: the capacity test of the accept loop.
ServerFull == getClientCount >= maxClients

\* Start: net.Listen, cm.running = true, go cm.cleanupClients().
Start ==
    /\ pcAccept = "init"
    /\ listenerOpen' = TRUE
    /\ running' = TRUE
    /\ pcReaper' = "wait"
    /\ pcAccept' = "top"
    /\ UNCHANGED <<clients, playerClients, maxClients, recVars, nextConn,
                   pendingConn, rejected, toRemove, pcStop, driverVars, storeVars, lockVars, rp, hc, gs>>

\* Start: `for cm.running`.
AcceptLoopTop ==
    /\ pcAccept = "top"
    /\ pcAccept' = IF running THEN "accepting" ELSE "returned"
    /\ UNCHANGED <<regVars, recVars, nextConn, pendingConn, rejected,
                   reaperVars, pcStop, driverVars, storeVars, lockVars, rp, hc, gs>>

\* Start: listener.Accept returns one of the first n connections; a full
\* server rejects it.
Accept(n) ==
    /\ pcAccept = "accepting"
    /\ listenerOpen
    /\ nextConn <= n
    /\ nextConn' = nextConn + 1
    /\ IF ServerFull
       THEN /\ rejected' = rejected \cup {nextConn}
            /\ pcAccept' = "top"
            /\ UNCHANGED pendingConn
       ELSE /\ pendingConn' = nextConn
            /\ pcAccept' = "create"
            /\ UNCHANGED rejected
    /\ UNCHANGED <<regVars, recVars, reaperVars, pcStop, driverVars, storeVars, lockVars, rp, hc, gs>>

\* Start: listener.Accept returns an error.
AcceptError ==
    /\ pcAccept = "accepting"
    /\ pcAccept' = IF ~running THEN "returned" ELSE "top"
    /\ UNCHANGED <<regVars, recVars, nextConn, pendingConn, rejected,
                   reaperVars, pcStop, driverVars, storeVars, lockVars, rp, hc, gs>>

\* Start: createClient(conn), then go cm.handler.HandleClient(client).
createClient ==
    /\ pcAccept = "create"
    /\ clients' = clients \cup {pendingConn}
    /\ client' = [client EXCEPT ![pendingConn] = NewClient]
    /\ created' = created \cup {pendingConn}
    /\ pcDriver' = [pcDriver EXCEPT ![pendingConn] = "welcome"]
    /\ pendingConn' = NoClient
    /\ pcAccept' = "top"
    /\ UNCHANGED <<playerClients, maxClients, running, listenerOpen, authOrder, evicted,
                   nextConn, rejected, reaperVars, pcStop, dispatched, driverLog,
                   storeVars, lockVars, rp, hc, gs>>

\* RemoveClient(clientID): what it leaves in the three structures it touches.
RemoveClient(clientID) ==
    IF clientID \notin clients
    THEN UNCHANGED <<clients, playerClients, client>>
    ELSE /\ playerClients' =
              IF GetPlayerID(client[clientID]) # ""
              THEN [playerClients EXCEPT ![GetPlayerID(client[clientID])] = NoClient]
              ELSE playerClients
         /\ client' = [client EXCEPT ![clientID] = Close(@)]
         /\ clients' = clients \ {clientID}

\* A registration that installs the new mapping without closing the record
\* it replaces.
RegisterPlayerClientNoClose(playerID, c) ==
    /\ playerClients' = [playerClients EXCEPT ![playerID] = c]
    /\ client' = [client EXCEPT ![c] = SetPlayerID(@, playerID)]
    /\ UNCHANGED clients

\* RegisterPlayerClient(playerID, client).
RegisterPlayerClient(playerID, c) ==
    LET existingClient == playerClients[playerID]
        closed == IF existingClient # NoClient
                  THEN [client EXCEPT ![existingClient] = Close(@)]
                  ELSE client
    IN  /\ playerClients' = [playerClients EXCEPT ![playerID] = c]
        /\ client' = [closed EXCEPT ![c] = SetPlayerID(@, playerID)]
        /\ UNCHANGED clients

\* UnregisterPlayerClient(playerID).
UnregisterPlayerClient(playerID) ==
    /\ playerClients' = [playerClients EXCEPT ![playerID] = NoClient]
    /\ UNCHANGED <<clients, client>>

\* performCleanup: the ids the scan collects.
performCleanupScan ==
    {id \in clients : ~IsConnected(client[id]) \/ IsIdle(client[id])}

\* cleanupClients: a tick of the ticker; performCleanup's scan.
ReaperTick ==
    /\ pcReaper = "wait"
    /\ IF ~running
       THEN /\ pcReaper' = "returned"
            /\ UNCHANGED toRemove
       ELSE /\ toRemove' = performCleanupScan
            /\ pcReaper' = IF performCleanupScan = {} THEN "wait" ELSE "removing"
    /\ UNCHANGED <<regVars, recVars, acceptVars, pcStop, driverVars, storeVars, lockVars, rp, hc, gs>>

\* performCleanup: one cm.RemoveClient(clientID) of the removal loop.
ReaperRemove ==
    /\ pcReaper = "removing"
    /\ \E id \in toRemove :
        /\ RemoveClient(id)
        /\ toRemove' = toRemove \ {id}
        /\ pcReaper' = IF toRemove \ {id} = {} THEN "wait" ELSE "removing"
    /\ UNCHANGED <<maxClients, running, listenerOpen, created, authOrder, evicted,
                   acceptVars, pcStop, driverVars, storeVars, lockVars, rp, hc, gs>>

\* Stop: cm.running = false.
StopFlag ==
    /\ pcStop = "idle"
    /\ pcAccept # "init"
    /\ running' = FALSE
    /\ pcStop' = "flagged"
    /\ UNCHANGED <<clients, playerClients, maxClients, listenerOpen, recVars,
                   acceptVars, reaperVars, driverVars, storeVars, lockVars, rp, hc, gs>>

\* Stop: cm.listener.Close().
StopCloseListener ==
    /\ pcStop = "flagged"
    /\ listenerOpen' = FALSE
    /\ pcStop' = "closing"
    /\ UNCHANGED <<clients, playerClients, maxClients, running, recVars,
                   acceptVars, reaperVars, driverVars, storeVars, lockVars, rp, hc, gs>>

\* Stop: under cm.mutex, client.Close() for every client of cm.clients.
StopCloseAll ==
    /\ pcStop = "closing"
    /\ client' = [c \in Conns |-> IF c \in clients THEN Close(client[c]) ELSE client[c]]
    /\ pcStop' = "returned"
    /\ UNCHANGED <<regVars, created, authOrder, evicted, acceptVars, reaperVars,
                   driverVars, storeVars, lockVars, rp, hc, gs>>

\* The player ids callers of the registry pass.
ApiPlayerIDs == {"p1", "p2"}

\* Callers of the exported registry operations.
CallRegisterPlayerClient ==
    /\ \E p \in ApiPlayerIDs, c \in created :
        /\ RegisterPlayerClient(p, c)
        /\ evicted' = IF playerClients[p] # NoClient
                         /\ IsConnected(client[playerClients[p]])
                      THEN evicted \cup {playerClients[p]} ELSE evicted
    /\ UNCHANGED <<maxClients, running, listenerOpen, created, authOrder,
                   acceptVars, reaperVars, pcStop, driverVars, storeVars, lockVars, rp, hc, gs>>

CallUnregisterPlayerClient ==
    /\ \E p \in ApiPlayerIDs : UnregisterPlayerClient(p)
    /\ UNCHANGED <<maxClients, running, listenerOpen, created, authOrder, evicted,
                   acceptVars, reaperVars, pcStop, driverVars, storeVars, lockVars, rp, hc, gs>>

CallRemoveClient ==
    /\ \E id \in Conns : RemoveClient(id)
    /\ UNCHANGED <<maxClients, running, listenerOpen, created, authOrder, evicted,
                   acceptVars, reaperVars, pcStop, driverVars, storeVars, lockVars, rp, hc, gs>>

\* Time passes: a connected record's lastActive falls behind the idle timeout.
BecomeIdle ==
    /\ \E c \in clients :
        /\ IsConnected(client[c])
        /\ ~IsIdle(client[c])
        /\ client' = [client EXCEPT ![c].idle = TRUE]
    /\ UNCHANGED <<regVars, created, authOrder, evicted, acceptVars,
                   reaperVars, pcStop, driverVars, storeVars, lockVars, rp, hc, gs>>

\* NewConnectionManager(maxClients, idleTimeout), NewSessionHandler.
Init ==
    /\ clients = {}
    /\ playerClients = [p \in PlayerIDs |-> NoClient]
    /\ maxClients \in 1..MaxClients
    /\ running = FALSE
    /\ listenerOpen = FALSE
    /\ client = [c \in Conns |-> NoRecord]
    /\ created = {}
    /\ pcAccept = "init"
    /\ nextConn = 1
    /\ pendingConn = NoClient
    /\ rejected = {}
    /\ pcReaper = "none"
    /\ toRemove = {}
    /\ pcStop = "idle"
    /\ pcDriver = [c \in Conns |-> "none"]
    /\ dispatched = [c \in Conns |-> StateConnected]
    /\ line = [c \in Conns |-> ""]
    /\ sent = [c \in Conns |-> <<>>]
    /\ players = InitPlayers
    /\ characters = InitCharacters
    /\ authOrder = <<>>
    /\ evicted = {}
    /\ tpc = [t \in Tasks |->
                IF t = TAccept THEN "init"
                ELSE IF t \in {TStop, TCaller} THEN "idle" ELSE "none"]
    /\ tcur = [t \in Tasks |-> IF t[1] = "driver" THEN t[2] ELSE NoClient]
    /\ tset = [t \in Tasks |-> {}]
    /\ tout = [t \in Tasks |-> {}]
    /\ held = [t \in Tasks |-> <<>>]
    /\ stalled = {}
    /\ rp = [pc |-> "idle", stream |-> <<>>, pos |-> 1, line |-> <<>>,
             wire |-> <<>>, result |-> [line |-> <<>>, err |-> ""]]
    /\ hc = [pc |-> "none", arrived |-> <<>>, next |-> 0, peerOpen |-> TRUE,
             connected |-> TRUE, state |-> StateConnected, got |-> 0,
             running |-> {}, log |-> <<>>, now |-> 0, lastActive |-> 0,
             before |-> 0, obtainedAt |-> 0, readFailed |-> FALSE,
             mode |-> "line", modes |-> <<>>, handler |-> StateConnected]
    /\ gs = [pc |-> "idle", reg |-> {}, made |-> 0,
             state |-> [c \in 1..MaxRecords |-> StateConnected],
             snapReg |-> {}, snapState |-> [c \in 1..MaxRecords |-> StateConnected],
             rest |-> {}, cur |-> 0,
             total |-> 0, auth |-> 0, ingame |-> 0,
             snaps |-> {}, changed |-> FALSE]

\* ------------------------------------------------------------------- Spec
\* The server as main wires it: accept loop, reaper, Stop and one driver per
\* accepted connection, whose peers log in to the existing account.
Driver ==
    \E c \in Conns :
        \/ HandleClientWelcome(c)
        \/ HandleClientLoop(c)
        \/ HandleClientRead(c, [s \in ClientState |-> LoginInputs(s)])
        \/ HandleClientReadError(c)
        \/ HandleClientHandle(c, [s \in ClientState |-> LoginInputs(s)], {FALSE})

AcceptAny == Accept(NumConns)

Next ==
    \/ Start
    \/ AcceptLoopTop
    \/ AcceptAny
    \/ AcceptError
    \/ createClient
    \/ ReaperTick
    \/ ReaperRemove
    \/ StopFlag
    \/ StopCloseListener
    \/ StopCloseAll
    \/ BecomeIdle
    \/ Driver

Spec == Init /\ [][Next]_vars

\* ------------------------------------------------------------ SpecSession
\* One connection whose peer may send any line in any state, every store,
\* hash and engine call free to fail, beside the reaper and Stop.
SessionDriver ==
    \/ HandleClientWelcome(1)
    \/ HandleClientLoop(1)
    \/ HandleClientRead(1, [s \in ClientState |-> InputsFor(s)])
    \/ HandleClientReadError(1)
    \/ HandleClientHandle(1, [s \in ClientState |-> InputsFor(s)], BOOLEAN)

AcceptOne == Accept(1)

NextSession ==
    \/ Start
    \/ AcceptLoopTop
    \/ AcceptOne
    \/ AcceptError
    \/ createClient
    \/ ReaperTick
    \/ ReaperRemove
    \/ StopFlag
    \/ StopCloseListener
    \/ StopCloseAll
    \/ BecomeIdle
    \/ SessionDriver

SpecSession == Init /\ [][NextSession]_vars

\* ---------------------------------------------------------------- SpecApi
\* The registry under arbitrary callers of its exported operations, beside
\* the accept loop, the reaper, Stop and drivers whose peers send nothing.
ApiDriver ==
    \E c \in Conns :
        \/ HandleClientWelcome(c)
        \/ HandleClientLoop(c)
        \/ HandleClientReadError(c)

NextApi ==
    \/ Start
    \/ AcceptLoopTop
    \/ AcceptAny
    \/ AcceptError
    \/ createClient
    \/ ReaperTick
    \/ ReaperRemove
    \/ StopFlag
    \/ StopCloseListener
    \/ StopCloseAll
    \/ CallRegisterPlayerClient
    \/ CallUnregisterPlayerClient
    \/ CallRemoveClient
    \/ ApiDriver

SpecApi == Init /\ [][NextApi]_vars

\* ----------------------------------------------------------- SpecRegister
\* The player-id index under arbitrary callers of RegisterPlayerClient,
\* UnregisterPlayerClient and RemoveClient, beside the accept loop and drivers
\* whose peers send nothing.
NextRegister ==
    \/ Start
    \/ AcceptLoopTop
    \/ AcceptAny
    \/ AcceptError
    \/ createClient
    \/ CallRegisterPlayerClient
    \/ CallUnregisterPlayerClient
    \/ CallRemoveClient
    \/ ApiDriver

SpecRegister == Init /\ [][NextRegister]_vars

\* ----------------------------------------------------------- SpecCapacity
\* The connection-id registry under accepts, removals by any caller, reaper
\* runs and Stop, with drivers whose peers send nothing.
NextCapacity ==
    \/ Start
    \/ AcceptLoopTop
    \/ AcceptAny
    \/ AcceptError
    \/ createClient
    \/ ReaperTick
    \/ ReaperRemove
    \/ BecomeIdle
    \/ CallRemoveClient
    \/ StopFlag
    \/ StopCloseListener
    \/ StopCloseAll
    \/ ApiDriver

SpecCapacity == Init /\ [][NextCapacity]_vars

\* =============================================================== lock steps
\* The operations again, one step per lock operation. A critical section
\* that neither takes another lock nor blocks is a single step; one that
\* takes a record lock under the registry lock, or blocks on the network, is
\* an acquiring step and a releasing step.

\* cm.mutex; the mutex of record c is c.
RegistryMutex == 0

Lk(l, m) == [lock |-> l, mode |-> m]
NoLock == Lk(RegistryMutex, "none")

\* The steps at which a task calls cm.mutex.Lock, cm.mutex.RLock,
\* c.mutex.Lock and c.mutex.RLock (c being the record of tcur).
RegLockPcs == {"createClient", "removeLock", "registerLock", "stopLock"}
RegRLockPcs == {"getClientCount", "scanRLock", "broadcastRLock", "statsRLock",
                "roomRLock"}
RecLockPcs == {"touch", "send", "close", "stopClose", "removeClose",
               "registerClose", "setPlayerID", "setState"}
RecRLockPcs == {"loop", "isConnected", "isIdle", "getPlayerID", "getPlayerID2",
                "getState", "bcIsConnected", "roomIsConnected", "roomGetState"}

\* The lock task t is calling for.
Wants(t) ==
    CASE tpc[t] \in RegLockPcs  -> Lk(RegistryMutex, "W")
      [] tpc[t] \in RegRLockPcs -> Lk(RegistryMutex, "R")
      [] tpc[t] \in RecLockPcs  -> Lk(tcur[t], "W")
      [] tpc[t] \in RecRLockPcs -> Lk(tcur[t], "R")
      [] OTHER                  -> NoLock

Holders(l) ==
    {t \in Tasks : \E i \in 1..Len(held[t]) : held[t][i].lock = l}
WriteHolders(l) ==
    {t \in Tasks : \E i \in 1..Len(held[t]) : held[t][i] = Lk(l, "W")}
PendingWriters(l) == {t \in Tasks : Wants(t) = Lk(l, "W")}

\* sync.RWMutex: Lock waits for every holder; RLock waits for a writer that
\* holds the lock or has called Lock.
CanAcquire(t, w) ==
    IF w.mode = "W"
    THEN Holders(w.lock) = {}
    ELSE WriteHolders(w.lock) = {} /\ PendingWriters(w.lock) \ {t} = {}

\* One step of task t: where it goes, the record, the sets and the locks
\* it goes on with.
TaskStep(t, pc2, cur2, set2, out2, held2) ==
    /\ tpc' = [tpc EXCEPT ![t] = pc2]
    /\ tcur' = [tcur EXCEPT ![t] = cur2]
    /\ tset' = [tset EXCEPT ![t] = set2]
    /\ tout' = [tout EXCEPT ![t] = out2]
    /\ held' = [held EXCEPT ![t] = held2]

\* A step that only moves task t on.
Goto(t, pc2) == TaskStep(t, pc2, tcur[t], tset[t], tout[t], held[t])

\* A step in which task t takes the lock it is calling for, or gives back
\* its innermost lock.
Locked(t) == Append(held[t], Wants(t))
Unlocked(t) == SubSeq(held[t], 1, Len(held[t]) - 1)

\* What the lock steps leave alone.
atomicVars == <<maxClients, pcAccept, nextConn, pendingConn, reaperVars, pcStop,
                driverVars, storeVars, authOrder, evicted, rp, hc, gs>>
registryData == <<clients, playerClients, running, listenerOpen, created, rejected>>

\* -------- Start
StartServer ==
    /\ tpc[TAccept] = "init"
    /\ running' = TRUE
    /\ listenerOpen' = TRUE
    /\ tpc' = [tpc EXCEPT ![TAccept] = "top", ![TReaper] = "wait"]
    /\ UNCHANGED <<clients, playerClients, created, rejected, client, tcur, tset,
                   tout, held, stalled, atomicVars>>

\* `for cm.running`.
AcceptLoop ==
    /\ tpc[TAccept] = "top"
    /\ Goto(TAccept, IF running THEN "accepting" ELSE "returned")
    /\ UNCHANGED <<registryData, client, stalled, atomicVars>>

\* listener.Accept returns a connection.
AcceptConn ==
    /\ tpc[TAccept] = "accepting"
    /\ listenerOpen
    /\ Cardinality(created \cup rejected) < NumConns
    /\ \E n \in Conns \ (created \cup rejected) :
        /\ \A m \in Conns \ (created \cup rejected) : n <= m
        /\ TaskStep(TAccept, "getClientCount", n, {}, {}, <<>>)
    /\ UNCHANGED <<registryData, client, stalled, atomicVars>>

\* listener.Accept returns an error: the listener has been closed.
AcceptFail ==
    /\ tpc[TAccept] = "accepting"
    /\ ~listenerOpen
    /\ Goto(TAccept, IF ~running THEN "returned" ELSE "top")
    /\ UNCHANGED <<registryData, client, stalled, atomicVars>>

\* getClientCount() >= cm.maxClients: a full server rejects the connection.
AcceptCount ==
    /\ tpc[TAccept] = "getClientCount"
    /\ CanAcquire(TAccept, Wants(TAccept))
    /\ IF ServerFull
       THEN /\ rejected' = rejected \cup {tcur[TAccept]}
            /\ TaskStep(TAccept, "top", NoClient, {}, {}, <<>>)
       ELSE /\ UNCHANGED rejected
            /\ Goto(TAccept, "createClient")
    /\ UNCHANGED <<clients, playerClients, running, listenerOpen, created, client,
                   stalled, atomicVars>>

\* createClient(conn), then go cm.handler.HandleClient(client).
AcceptCreate ==
    /\ tpc[TAccept] = "createClient"
    /\ CanAcquire(TAccept, Wants(TAccept))
    /\ clients' = clients \cup {tcur[TAccept]}
    /\ client' = [client EXCEPT ![tcur[TAccept]] = NewClient]
    /\ created' = created \cup {tcur[TAccept]}
    /\ tpc' = [tpc EXCEPT ![TAccept] = "top", ![DriverTask(tcur[TAccept])] = "loop"]
    /\ tcur' = [tcur EXCEPT ![TAccept] = NoClient]
    /\ UNCHANGED <<playerClients, running, listenerOpen, rejected, tset, tout,
                   held, stalled, atomicVars>>

\* -------- HandleClient, for the task of connection c
\* `for client.IsConnected()`; a false condition leaves the loop for the
\* deferred Close.
DriverLoop(c) ==
    /\ tpc[DriverTask(c)] = "loop"
    /\ CanAcquire(DriverTask(c), Wants(DriverTask(c)))
    /\ Goto(DriverTask(c), IF IsConnected(client[c]) THEN "touch" ELSE "close")
    /\ UNCHANGED <<registryData, client, stalled, atomicVars>>

\* The states in which HandleClient reads with ReadPassword.
PasswordStates == {StateAuthenticating, StateConfirmingPassword}

\* ReadLine: updateLastActive, then the read blocks.
DriverTouch(c) ==
    /\ tpc[DriverTask(c)] = "touch"
    /\ GetState(client[c]) \notin PasswordStates
    /\ CanAcquire(DriverTask(c), Wants(DriverTask(c)))
    /\ client' = [client EXCEPT ![c] = updateLastActive(@)]
    /\ Goto(DriverTask(c), "read")
    /\ UNCHANGED <<registryData, stalled, atomicVars>>

\* The read returns a line; the handler answers it.
DriverRead(c) ==
    /\ tpc[DriverTask(c)] = "read"
    /\ IsConnected(client[c])
    /\ Goto(DriverTask(c), "send")
    /\ UNCHANGED <<registryData, client, stalled, atomicVars>>

\* A read that fails only when the peer goes away: on a stream closed by
\* Close it stays blocked.
DriverReadErrorPeerOnly(c) ==
    /\ tpc[DriverTask(c)] = "read"
    /\ IsConnected(client[c])
    /\ Goto(DriverTask(c), "close")
    /\ UNCHANGED <<registryData, client, stalled, atomicVars>>

\* The read fails; the loop breaks.
DriverReadError(c) ==
    /\ tpc[DriverTask(c)] = "read"
    /\ Goto(DriverTask(c), "close")
    /\ UNCHANGED <<registryData, client, stalled, atomicVars>>

\* The deferred client.Close().
DriverClose(c) ==
    /\ tpc[DriverTask(c)] = "close"
    /\ CanAcquire(DriverTask(c), Wants(DriverTask(c)))
    /\ client' = [client EXCEPT ![c] = Close(@)]
    /\ Goto(DriverTask(c), "done")
    /\ UNCHANGED <<registryData, stalled, atomicVars>>

\* -------- Client.Send, by the driver of the record
\* Send: c.mutex.Lock(); a closed record returns ErrClientDisconnected, on an
\* open one the write and the flush begin.
DriverSend(c) ==
    /\ tpc[DriverTask(c)] = "send"
    /\ CanAcquire(DriverTask(c), Wants(DriverTask(c)))
    /\ IF IsConnected(client[c])
       THEN TaskStep(DriverTask(c), "sending", c, {}, {}, Locked(DriverTask(c)))
       ELSE Goto(DriverTask(c), "loop")
    /\ UNCHANGED <<registryData, client, stalled, atomicVars>>

\* Send: the flush returns, which it does not while the peer does not read;
\* the deferred c.mutex.Unlock().
DriverSent(c) ==
    /\ tpc[DriverTask(c)] = "sending"
    /\ c \notin stalled
    /\ TaskStep(DriverTask(c), "loop", c, {}, {}, Unlocked(DriverTask(c)))
    /\ UNCHANGED <<registryData, client, stalled, atomicVars>>

\* The peer of connection c stops reading.
StallPeer(c) ==
    /\ c \in created
    /\ c \notin stalled
    /\ stalled' = stalled \cup {c}
    /\ UNCHANGED <<registryData, client, tpc, tcur, tset, tout, held, atomicVars>>

\* -------- cleanupClients and performCleanup
\* A tick of the ticker: the reaper returns once the server has stopped.
cleanupClientsTick ==
    /\ tpc[TReaper] = "wait"
    /\ Goto(TReaper, IF ~running THEN "returned" ELSE "scanRLock")
    /\ UNCHANGED <<registryData, client, stalled, atomicVars>>

\* performCleanup: the range over toRemove goes on with the next id, or the
\* reaper waits for the next tick. h are the locks the reaper goes on with.
performCleanupRemove(out, h) ==
    IF out = {}
    THEN TaskStep(TReaper, "wait", NoClient, {}, {}, h)
    ELSE \E id \in out : TaskStep(TReaper, "removeLock", id, {}, out \ {id}, h)

\* A reaper that keeps the read lock for the removals.
performCleanupNoRUnlock == <<Lk(RegistryMutex, "R")>>

\* What the reaper holds once the scan is over: cm.mutex.RUnlock().
performCleanupRUnlock == <<>>

\* performCleanup: the range over cm.clients goes on with the next record, or
\* ends with out collected.
performCleanupScan2(rest, out) ==
    IF rest = {}
    THEN performCleanupRemove(out, performCleanupRUnlock)
    ELSE \E c \in rest :
           TaskStep(TReaper, "isConnected", c, rest \ {c}, out,
                    <<Lk(RegistryMutex, "R")>>)

\* performCleanup: cm.mutex.RLock(), the range over cm.clients begins.
performCleanupRLock ==
    /\ tpc[TReaper] = "scanRLock"
    /\ CanAcquire(TReaper, Wants(TReaper))
    /\ performCleanupScan2(clients, {})
    /\ UNCHANGED <<registryData, client, stalled, atomicVars>>

\* performCleanup: client.IsConnected() takes the record's lock.
performCleanupIsConnected ==
    /\ tpc[TReaper] = "isConnected"
    /\ CanAcquire(TReaper, Wants(TReaper))
    /\ TaskStep(TReaper, "isConnectedHeld", tcur[TReaper], tset[TReaper],
                tout[TReaper], Locked(TReaper))
    /\ UNCHANGED <<registryData, client, stalled, atomicVars>>

\* performCleanup: IsConnected returns; a closed record is collected.
performCleanupIsConnectedDone ==
    /\ tpc[TReaper] = "isConnectedHeld"
    /\ IF IsConnected(client[tcur[TReaper]])
       THEN TaskStep(TReaper, "isIdle", tcur[TReaper], tset[TReaper],
                     tout[TReaper], Unlocked(TReaper))
       ELSE performCleanupScan2(tset[TReaper], tout[TReaper] \cup {tcur[TReaper]})
    /\ UNCHANGED <<registryData, client, stalled, atomicVars>>

\* performCleanup: client.IsIdle(cm.idleTimeout) takes the record's lock.
performCleanupIsIdle ==
    /\ tpc[TReaper] = "isIdle"
    /\ CanAcquire(TReaper, Wants(TReaper))
    /\ TaskStep(TReaper, "isIdleHeld", tcur[TReaper], tset[TReaper],
                tout[TReaper], Locked(TReaper))
    /\ UNCHANGED <<registryData, client, stalled, atomicVars>>

\* performCleanup: IsIdle returns; an idle record is collected.
performCleanupIsIdleDone ==
    /\ tpc[TReaper] = "isIdleHeld"
    /\ performCleanupScan2(tset[TReaper],
                           IF IsIdle(client[tcur[TReaper]])
                           THEN tout[TReaper] \cup {tcur[TReaper]}
                           ELSE tout[TReaper])
    /\ UNCHANGED <<registryData, client, stalled, atomicVars>>

\* -------- RemoveClient(tcur[t]), by the reaper or by a caller
\* RemoveClient returns to task t, which goes on holding h.
RemoveClientReturn(t, h) ==
    IF t = TReaper
    THEN performCleanupRemove(tout[TReaper], h)
    ELSE TaskStep(t, "idle", NoClient, {}, {}, h)

\* The ids task t may be removing: the one the reaper took from toRemove,
\* any for a caller.
RemoveClientIDs(t) == IF t = TReaper THEN {tcur[t]} ELSE Conns

\* cm.mutex.Lock(); an id that is not registered returns at once.
RemoveClientLock(t) ==
    /\ tpc[t] = "removeLock"
    /\ CanAcquire(t, Wants(t))
    /\ \E id \in RemoveClientIDs(t) :
        IF id \in clients
        THEN TaskStep(t, "getPlayerID", id, tset[t], tout[t], Locked(t))
        ELSE RemoveClientReturn(t, held[t])
    /\ UNCHANGED <<registryData, client, stalled, atomicVars>>

\* client.GetPlayerID() != "": the call takes the record's lock.
RemoveClientGetPlayerID(t) ==
    /\ tpc[t] = "getPlayerID"
    /\ CanAcquire(t, Wants(t))
    /\ TaskStep(t, "getPlayerIDHeld", tcur[t], tset[t], tout[t], Locked(t))
    /\ UNCHANGED <<registryData, client, stalled, atomicVars>>

RemoveClientGetPlayerIDDone(t) ==
    /\ tpc[t] = "getPlayerIDHeld"
    /\ TaskStep(t, IF GetPlayerID(client[tcur[t]]) # "" THEN "getPlayerID2"
                   ELSE "removeClose",
                tcur[t], tset[t], tout[t], Unlocked(t))
    /\ UNCHANGED <<registryData, client, stalled, atomicVars>>

\* delete(cm.playerClients, client.GetPlayerID()): the second call.
RemoveClientDelete(t) ==
    /\ tpc[t] = "getPlayerID2"
    /\ CanAcquire(t, Wants(t))
    /\ TaskStep(t, "getPlayerID2Held", tcur[t], tset[t], tout[t], Locked(t))
    /\ UNCHANGED <<registryData, client, stalled, atomicVars>>

RemoveClientDeleteDone(t) ==
    /\ tpc[t] = "getPlayerID2Held"
    /\ playerClients' =
         IF GetPlayerID(client[tcur[t]]) # ""
         THEN [playerClients EXCEPT ![GetPlayerID(client[tcur[t]])] = NoClient]
         ELSE playerClients
    /\ TaskStep(t, "removeClose", tcur[t], tset[t], tout[t], Unlocked(t))
    /\ UNCHANGED <<clients, running, listenerOpen, created, rejected, client,
                   stalled, atomicVars>>

\* client.Close() takes the record's lock.
RemoveClientClose(t) ==
    /\ tpc[t] = "removeClose"
    /\ CanAcquire(t, Wants(t))
    /\ client' = [client EXCEPT ![tcur[t]] = Close(@)]
    /\ TaskStep(t, "removeCloseHeld", tcur[t], tset[t], tout[t], Locked(t))
    /\ UNCHANGED <<registryData, stalled, atomicVars>>

\* Close returns, delete(cm.clients, clientID), the deferred cm.mutex.Unlock().
RemoveClientUnlock(t) ==
    /\ tpc[t] = "removeCloseHeld"
    /\ clients' = clients \ {tcur[t]}
    /\ RemoveClientReturn(t, SubSeq(held[t], 1, Len(held[t]) - 2))
    /\ UNCHANGED <<playerClients, running, listenerOpen, created, rejected, client,
                   stalled, atomicVars>>

\* -------- Stop
\* cm.running = false.
StopRunning ==
    /\ tpc[TStop] = "idle"
    /\ tpc[TAccept] # "init"
    /\ running' = FALSE
    /\ Goto(TStop, "flagged")
    /\ UNCHANGED <<clients, playerClients, listenerOpen, created, rejected, client,
                   stalled, atomicVars>>

\* cm.listener.Close().
StopListener ==
    /\ tpc[TStop] = "flagged"
    /\ listenerOpen' = FALSE
    /\ Goto(TStop, "stopLock")
    /\ UNCHANGED <<clients, playerClients, running, created, rejected, client,
                   stalled, atomicVars>>

\* Stop: the range over cm.clients goes on with the next record, or ends
\* with the deferred cm.mutex.Unlock().
StopRange(rest) ==
    IF rest = {}
    THEN TaskStep(TStop, "returned", NoClient, {}, {}, <<>>)
    ELSE \E c \in rest :
           TaskStep(TStop, "stopClose", c, rest \ {c}, {}, <<Lk(RegistryMutex, "W")>>)

\* cm.mutex.Lock(), the range over cm.clients begins.
StopLock ==
    /\ tpc[TStop] = "stopLock"
    /\ CanAcquire(TStop, Wants(TStop))
    /\ StopRange(clients)
    /\ UNCHANGED <<registryData, client, stalled, atomicVars>>

\* client.Close() takes the record's lock.
StopClose ==
    /\ tpc[TStop] = "stopClose"
    /\ CanAcquire(TStop, Wants(TStop))
    /\ client' = [client EXCEPT ![tcur[TStop]] = Close(@)]
    /\ TaskStep(TStop, "stopCloseHeld", tcur[TStop], tset[TStop], {}, Locked(TStop))
    /\ UNCHANGED <<registryData, stalled, atomicVars>>

\* Close returns.
StopCloseDone ==
    /\ tpc[TStop] = "stopCloseHeld"
    /\ StopRange(tset[TStop])
    /\ UNCHANGED <<registryData, client, stalled, atomicVars>>

\* -------- the exported registry operations, called by any task
\* The player id callers register.
LockPlayerID == "p1"

\* RegisterPlayerClient(LockPlayerID, c) is called.
CallRegister ==
    /\ tpc[TCaller] = "idle"
    /\ Goto(TCaller, "registerLock")
    /\ UNCHANGED <<registryData, client, stalled, atomicVars>>

\* cm.mutex.Lock(); a record registered for the player is closed first. c is
\* the record the caller passes.
RegisterLock ==
    /\ tpc[TCaller] = "registerLock"
    /\ CanAcquire(TCaller, Wants(TCaller))
    /\ \E c \in created :
        IF playerClients[LockPlayerID] # NoClient
        THEN TaskStep(TCaller, "registerClose", playerClients[LockPlayerID], {},
                      {c}, Locked(TCaller))
        ELSE TaskStep(TCaller, "setPlayerID", c, {}, {}, Locked(TCaller))
    /\ UNCHANGED <<registryData, client, stalled, atomicVars>>

\* existingClient.Close() takes the record's lock.
RegisterClose ==
    /\ tpc[TCaller] = "registerClose"
    /\ CanAcquire(TCaller, Wants(TCaller))
    /\ client' = [client EXCEPT ![tcur[TCaller]] = Close(@)]
    /\ TaskStep(TCaller, "registerCloseHeld", tcur[TCaller], {}, tout[TCaller],
                Locked(TCaller))
    /\ UNCHANGED <<registryData, stalled, atomicVars>>

RegisterCloseDone ==
    /\ tpc[TCaller] = "registerCloseHeld"
    /\ \E c \in tout[TCaller] :
         TaskStep(TCaller, "setPlayerID", c, {}, {}, Unlocked(TCaller))
    /\ UNCHANGED <<registryData, client, stalled, atomicVars>>

\* cm.playerClients[playerID] = client; client.SetPlayerID(playerID) takes the
\* record's lock.
RegisterSetPlayerID ==
    /\ tpc[TCaller] = "setPlayerID"
    /\ CanAcquire(TCaller, Wants(TCaller))
    /\ playerClients' = [playerClients EXCEPT ![LockPlayerID] = tcur[TCaller]]
    /\ client' = [client EXCEPT ![tcur[TCaller]] = SetPlayerID(@, LockPlayerID)]
    /\ TaskStep(TCaller, "setPlayerIDHeld", tcur[TCaller], {}, {}, Locked(TCaller))
    /\ UNCHANGED <<clients, running, listenerOpen, created, rejected, stalled,
                   atomicVars>>

\* SetPlayerID returns; the deferred cm.mutex.Unlock().
RegisterUnlock ==
    /\ tpc[TCaller] = "setPlayerIDHeld"
    /\ TaskStep(TCaller, "idle", NoClient, {}, {}, <<>>)
    /\ UNCHANGED <<registryData, client, stalled, atomicVars>>

\* RemoveClient(id) is called.
CallRemove ==
    /\ tpc[TCaller] = "idle"
    /\ Goto(TCaller, "removeLock")
    /\ UNCHANGED <<registryData, client, stalled, atomicVars>>

\* GetStats is called.
CallStats ==
    /\ tpc[TCaller] = "idle"
    /\ Goto(TCaller, "statsRLock")
    /\ UNCHANGED <<registryData, client, stalled, atomicVars>>

\* GetStats: the range over cm.clients goes on with the next record, or
\* ends with the deferred cm.mutex.RUnlock().
GetStatsRange(rest) ==
    IF rest = {}
    THEN TaskStep(TCaller, "idle", NoClient, {}, {}, <<>>)
    ELSE \E c \in rest :
           TaskStep(TCaller, "getState", c, rest \ {c}, {},
                    <<Lk(RegistryMutex, "R")>>)

\* GetStats: cm.mutex.RLock(), the range over cm.clients begins.
GetStatsRLock ==
    /\ tpc[TCaller] = "statsRLock"
    /\ CanAcquire(TCaller, Wants(TCaller))
    /\ GetStatsRange(clients)
    /\ UNCHANGED <<registryData, client, stalled, atomicVars>>

\* GetStats: client.GetState() takes the record's lock.
GetStatsGetState ==
    /\ tpc[TCaller] = "getState"
    /\ CanAcquire(TCaller, Wants(TCaller))
    /\ TaskStep(TCaller, "getStateHeld", tcur[TCaller], tset[TCaller], {},
                Locked(TCaller))
    /\ UNCHANGED <<registryData, client, stalled, atomicVars>>

\* GetState returns.
GetStatsGetStateDone ==
    /\ tpc[TCaller] = "getStateHeld"
    /\ GetStatsRange(tset[TCaller])
    /\ UNCHANGED <<registryData, client, stalled, atomicVars>>

\* BroadcastToAll is called.
CallBroadcast ==
    /\ tpc[TCaller] = "idle"
    /\ Goto(TCaller, "broadcastRLock")
    /\ UNCHANGED <<registryData, client, stalled, atomicVars>>

\* A range over the snapshot that begins with the registry lock still held.
BroadcastSendNoRUnlock(out) ==
    IF out = {}
    THEN TaskStep(TCaller, "idle", NoClient, {}, {}, <<>>)
    ELSE \E c \in out :
           TaskStep(TCaller, "send", c, {}, out \ {c}, <<Lk(RegistryMutex, "R")>>)

\* BroadcastToAll: the range over the snapshot goes on with the next
\* client.Send(message), or ends.
BroadcastSend(out) ==
    IF out = {}
    THEN TaskStep(TCaller, "idle", NoClient, {}, {}, <<>>)
    ELSE \E c \in out : TaskStep(TCaller, "send", c, {}, out \ {c}, <<>>)

\* BroadcastToAll: the range over cm.clients goes on with the next record,
\* or ends with cm.mutex.RUnlock() and out as the snapshot.
BroadcastRange(rest, out) ==
    IF rest = {}
    THEN BroadcastSend(out)
    ELSE \E c \in rest :
           TaskStep(TCaller, "bcIsConnected", c, rest \ {c}, out,
                    <<Lk(RegistryMutex, "R")>>)

\* BroadcastToAll: cm.mutex.RLock(), the range over cm.clients begins.
BroadcastRLock ==
    /\ tpc[TCaller] = "broadcastRLock"
    /\ CanAcquire(TCaller, Wants(TCaller))
    /\ BroadcastRange(clients, {})
    /\ UNCHANGED <<registryData, client, stalled, atomicVars>>

\* BroadcastToAll: client.IsConnected() takes the record's lock.
BroadcastIsConnected ==
    /\ tpc[TCaller] = "bcIsConnected"
    /\ CanAcquire(TCaller, Wants(TCaller))
    /\ TaskStep(TCaller, "bcIsConnectedHeld", tcur[TCaller], tset[TCaller],
                tout[TCaller], Locked(TCaller))
    /\ UNCHANGED <<registryData, client, stalled, atomicVars>>

\* IsConnected returns; a connected record joins the snapshot.
BroadcastIsConnectedDone ==
    /\ tpc[TCaller] = "bcIsConnectedHeld"
    /\ BroadcastRange(tset[TCaller],
                      IF IsConnected(client[tcur[TCaller]])
                      THEN tout[TCaller] \cup {tcur[TCaller]} ELSE tout[TCaller])
    /\ UNCHANGED <<registryData, client, stalled, atomicVars>>

\* BroadcastToAll: client.Send takes the record's lock; a closed record
\* returns ErrClientDisconnected, on an open one the write and the flush begin.
BroadcastSendLock ==
    /\ tpc[TCaller] = "send"
    /\ CanAcquire(TCaller, Wants(TCaller))
    /\ IF IsConnected(client[tcur[TCaller]])
       THEN TaskStep(TCaller, "sending", tcur[TCaller], {}, tout[TCaller],
                     Locked(TCaller))
       ELSE BroadcastSend(tout[TCaller])
    /\ UNCHANGED <<registryData, client, stalled, atomicVars>>

\* BroadcastToAll: the flush returns, which it does not while the peer does
\* not read.
BroadcastSendFlush ==
    /\ tpc[TCaller] = "sending"
    /\ tcur[TCaller] \notin stalled
    /\ BroadcastSend(tout[TCaller])
    /\ UNCHANGED <<registryData, client, stalled, atomicVars>>

\* ---------------------------------------------------------------- SpecLock
\* Every task of the server at the granularity of its lock operations, with
\* peers that may stop reading.
LockDriver ==
    \E c \in Conns :
        \/ DriverLoop(c)
        \/ DriverTouch(c)
        \/ DriverRead(c)
        \/ DriverReadError(c)
        \/ DriverClose(c)
        \/ DriverSend(c)
        \/ DriverSent(c)

StallAny == \E c \in Conns : StallPeer(c)

LockAccept == AcceptLoop \/ AcceptConn \/ AcceptFail \/ AcceptCount \/ AcceptCreate

LockReaper ==
    \/ cleanupClientsTick
    \/ performCleanupRLock
    \/ performCleanupIsConnected
    \/ performCleanupIsConnectedDone
    \/ performCleanupIsIdle
    \/ performCleanupIsIdleDone

LockRemove(t) ==
    \/ RemoveClientLock(t)
    \/ RemoveClientGetPlayerID(t)
    \/ RemoveClientGetPlayerIDDone(t)
    \/ RemoveClientDelete(t)
    \/ RemoveClientDeleteDone(t)
    \/ RemoveClientClose(t)
    \/ RemoveClientUnlock(t)

\* Stop after its first statement.
LockStop == StopListener \/ StopLock \/ StopClose \/ StopCloseDone

\* The caller begins an operation of the registry.
CallAny == CallRegister \/ CallRemove \/ CallStats \/ CallBroadcast

LockCaller ==
    \/ RegisterLock \/ RegisterClose \/ RegisterCloseDone
    \/ RegisterSetPlayerID \/ RegisterUnlock
    \/ GetStatsRLock \/ GetStatsGetState \/ GetStatsGetStateDone
    \/ BroadcastRLock \/ BroadcastIsConnected \/ BroadcastIsConnectedDone
    \/ BroadcastSendLock \/ BroadcastSendFlush

\* ---------------------------------------------------------------- SpecLock
\* The accept loop, the reaper, the drivers and one outside caller that calls
\* RegisterPlayerClient, RemoveClient, GetStats, BroadcastToAll and Stop one
\* after another, in any order: Stop begins when no other call of the caller
\* is in progress, and no call begins while Stop is.
NextLock ==
    \/ StartServer
    \/ LockAccept
    \/ LockDriver
    \/ LockReaper
    \/ LockRemove(TReaper)
    \/ LockRemove(TCaller)
    \/ tpc[TCaller] = "idle" /\ StopRunning
    \/ LockStop
    \/ tpc[TStop] \in {"idle", "returned"} /\ CallAny
    \/ LockCaller

SpecLock == Init /\ [][NextLock]_vars

\* ---------------------------------------------------------------- SpecIdle
\* The server from Start to Stop: the accept loop, the reaper, Stop and the
\* drivers at the granularity of their lock operations, with connections that
\* fall idle and peers that stop reading; no peer logs in, so no record
\* carries a player id. Every task that can take a step eventually takes one;
\* a lock that keeps becoming free is eventually given to a task that is
\* waiting for it. No line, no new connection and no call of Stop is bound to
\* arrive.
LockRemoveAnon(t) ==
    \/ RemoveClientLock(t)
    \/ RemoveClientGetPlayerID(t)
    \/ RemoveClientGetPlayerIDDone(t)
    \/ RemoveClientClose(t)
    \/ RemoveClientUnlock(t)

NextIdle ==
    \/ StartServer
    \/ LockAccept
    \/ LockDriver
    \/ StallAny
    \/ LockReaper
    \/ LockRemoveAnon(TReaper)
    \/ StopRunning
    \/ LockStop
    \/ BecomeIdle

FairIdle ==
    /\ WF_vars(StartServer)
    /\ SF_vars(AcceptLoop \/ AcceptFail \/ AcceptCount \/ AcceptCreate)
    /\ SF_vars(LockReaper \/ LockRemoveAnon(TReaper))
    /\ SF_vars(LockStop)
    /\ \A c \in Conns :
         SF_vars(DriverLoop(c) \/ DriverTouch(c) \/ DriverSend(c) \/ DriverSent(c)
                 \/ DriverClose(c))

SpecIdle == Init /\ [][NextIdle]_vars /\ FairIdle

\* --------------------------------------------------------------- SpecClose
\* A running server with one peer, which connects, sends lines or stops
\* reading, and falls idle; its record is closed by the reaper, by Stop or by
\* RegisterPlayerClient, which closes the record registered for the player
\* before it registers the one it is given. A read on a stream that Close
\* has closed returns an error: the driver of a closed record that waits in
\* its read takes that step. Every task that holds or calls for a lock
\* eventually goes on when it can.
ReadOnClosedStream(c) == DriverReadError(c) /\ ~IsConnected(client[c])

LockRegister ==
    \/ RegisterLock \/ RegisterClose \/ RegisterCloseDone
    \/ RegisterSetPlayerID \/ RegisterUnlock

NextClose ==
    \/ StartServer
    \/ AcceptLoop
    \/ created = {} /\ AcceptConn
    \/ AcceptFail
    \/ AcceptCount
    \/ AcceptCreate
    \/ LockDriver
    \/ StallAny
    \/ LockReaper
    \/ LockRemove(TReaper)
    \/ StopRunning
    \/ LockStop
    \/ BecomeIdle
    \/ CallRegister
    \/ LockRegister

FairClose ==
    /\ SF_vars(LockReaper \/ LockRemove(TReaper))
    /\ SF_vars(LockStop)
    /\ SF_vars(LockRegister)
    /\ \A c \in Conns :
         /\ SF_vars(DriverLoop(c) \/ DriverTouch(c) \/ DriverSend(c) \/ DriverSent(c)
                    \/ DriverClose(c))
         /\ WF_vars(ReadOnClosedStream(c))

SpecClose == Init /\ [][NextClose]_vars /\ FairClose

\* ---------------------------------------------------------------- SpecSend
\* What the driver steps of this part leave alone.
driverRest == <<maxClients, pcAccept, nextConn, pendingConn, reaperVars, pcStop,
                pcDriver, driverLog, storeVars, authOrder, evicted, rp, hc, gs>>

\* The state a handler sets after its answer, by the state HandleClient
\* dispatched on, for peers that log in to an existing account and select a
\* character: handleLogin, handlePasswordAuth, selectCharacter.
HandlerSetState(s) ==
    CASE s = StateConnected          -> {StateAuthenticating}
      [] s = StateAuthenticating     -> {StateCharacterSelection}
      [] s = StateCharacterSelection -> {StateInGame}
      [] OTHER                       -> {}

\* ReadLine returns a line; `switch client.GetState()` selects the handler,
\* which answers.
DriverDispatch(c) ==
    /\ tpc[DriverTask(c)] = "read"
    /\ IsConnected(client[c])
    /\ CanAcquire(DriverTask(c), Lk(c, "R"))
    /\ dispatched' = [dispatched EXCEPT ![c] = GetState(client[c])]
    /\ Goto(DriverTask(c), "send")
    /\ UNCHANGED <<registryData, client, stalled, driverRest>>

\* The handler's Send has returned and the handler goes on to SetState.
DriverSentSetState(c) ==
    /\ tpc[DriverTask(c)] = "sending"
    /\ c \notin stalled
    /\ HandlerSetState(dispatched[c]) # {}
    /\ TaskStep(DriverTask(c), "setState", c, {}, {}, Unlocked(DriverTask(c)))
    /\ UNCHANGED <<registryData, client, stalled, atomicVars>>

\* client.SetState(...) of the handler.
DriverSetState(c) ==
    /\ tpc[DriverTask(c)] = "setState"
    /\ CanAcquire(DriverTask(c), Wants(DriverTask(c)))
    /\ \E s \in HandlerSetState(dispatched[c]) :
         client' = [client EXCEPT ![c] = SetState(@, s)]
    /\ Goto(DriverTask(c), "loop")
    /\ UNCHANGED <<registryData, stalled, atomicVars>>

\* ReadPassword: updateLastActive.
DriverTouchPassword(c) ==
    /\ tpc[DriverTask(c)] = "touch"
    /\ GetState(client[c]) \in PasswordStates
    /\ CanAcquire(DriverTask(c), Wants(DriverTask(c)))
    /\ client' = [client EXCEPT ![c] = updateLastActive(@)]
    /\ Goto(DriverTask(c), "pwEchoOff")
    /\ UNCHANGED <<registryData, stalled, atomicVars>>

\* ReadPassword: c.conn.Write(IAC WILL ECHO) begins; on a closed stream it
\* fails and ReadPassword returns the error.
DriverPwEchoOff(c) ==
    /\ tpc[DriverTask(c)] = "pwEchoOff"
    /\ Goto(DriverTask(c), IF IsConnected(client[c]) THEN "pwWriting" ELSE "close")
    /\ UNCHANGED <<registryData, client, stalled, atomicVars>>

\* The write returns; the byte loop waits in ReadByte.
DriverPwEchoOffDone(c) ==
    /\ tpc[DriverTask(c)] = "pwWriting"
    /\ c \notin stalled
    /\ Goto(DriverTask(c), "pwRead")
    /\ UNCHANGED <<registryData, client, stalled, atomicVars>>

\* The byte loop has read the newline.
DriverPwRead(c) ==
    /\ tpc[DriverTask(c)] = "pwRead"
    /\ IsConnected(client[c])
    /\ Goto(DriverTask(c), "pwEchoOn")
    /\ UNCHANGED <<registryData, client, stalled, atomicVars>>

\* ReadByte fails.
DriverPwReadError(c) ==
    /\ tpc[DriverTask(c)] = "pwRead"
    /\ Goto(DriverTask(c), "pwEchoOnErr")
    /\ UNCHANGED <<registryData, client, stalled, atomicVars>>

\* After the loop: c.conn.Write(IAC WONT ECHO), c.writer.WriteString("\r\n")
\* and c.writer.Flush() begin; on a closed stream the write fails and
\* ReadPassword returns the error.
DriverPwEchoOn(c) ==
    /\ tpc[DriverTask(c)] = "pwEchoOn"
    /\ Goto(DriverTask(c), IF IsConnected(client[c]) THEN "pwRestoring" ELSE "close")
    /\ UNCHANGED <<registryData, client, stalled, atomicVars>>

\* The writes return and ReadPassword returns the line; `switch
\* client.GetState()` selects the handler, which answers.
DriverPwEchoOnDone(c) ==
    /\ tpc[DriverTask(c)] = "pwRestoring"
    /\ c \notin stalled
    /\ CanAcquire(DriverTask(c), Lk(c, "R"))
    /\ dispatched' = [dispatched EXCEPT ![c] = GetState(client[c])]
    /\ Goto(DriverTask(c), "send")
    /\ UNCHANGED <<registryData, client, stalled, driverRest>>

\* On the failed ReadByte: c.conn.Write(IAC WONT ECHO) begins, or fails at
\* once on a closed stream; ReadPassword then returns the error.
DriverPwEchoOnErr(c) ==
    /\ tpc[DriverTask(c)] = "pwEchoOnErr"
    /\ Goto(DriverTask(c), IF IsConnected(client[c]) THEN "pwRestoringErr" ELSE "close")
    /\ UNCHANGED <<registryData, client, stalled, atomicVars>>

\* That write returns.
DriverPwEchoOnErrDone(c) ==
    /\ tpc[DriverTask(c)] = "pwRestoringErr"
    /\ c \notin stalled
    /\ Goto(DriverTask(c), "close")
    /\ UNCHANGED <<registryData, client, stalled, atomicVars>>

\* The steps at which a task is inside a write to the stream or the output
\* buffer of the record of tcur.
WritingPcs == {"sending", "pwWriting", "pwRestoring", "pwRestoringErr"}

\* The tasks that are writing to connection c.
Writers(c) == {t \in Tasks : tpc[t] \in WritingPcs /\ tcur[t] = c}

\* -------- BroadcastToRoom
\* BroadcastToRoom is called.
CallBroadcastRoom ==
    /\ tpc[TCaller] = "idle"
    /\ Goto(TCaller, "roomRLock")
    /\ UNCHANGED <<registryData, client, stalled, atomicVars>>

\* BroadcastToRoom: the range over cm.clients goes on with the next record,
\* or ends with cm.mutex.RUnlock() and out as the snapshot.
BroadcastRoomRange(rest, out) ==
    IF rest = {}
    THEN BroadcastSend(out)
    ELSE \E c \in rest :
           TaskStep(TCaller, "roomIsConnected", c, rest \ {c}, out,
                    <<Lk(RegistryMutex, "R")>>)

\* BroadcastToRoom: cm.mutex.RLock(), the range over cm.clients begins.
BroadcastRoomRLock ==
    /\ tpc[TCaller] = "roomRLock"
    /\ CanAcquire(TCaller, Wants(TCaller))
    /\ BroadcastRoomRange(clients, {})
    /\ UNCHANGED <<registryData, client, stalled, atomicVars>>

\* BroadcastToRoom: client.IsConnected() takes the record's lock.
BroadcastRoomIsConnected ==
    /\ tpc[TCaller] = "roomIsConnected"
    /\ CanAcquire(TCaller, Wants(TCaller))
    /\ TaskStep(TCaller, "roomIsConnectedHeld", tcur[TCaller], tset[TCaller],
                tout[TCaller], Locked(TCaller))
    /\ UNCHANGED <<registryData, client, stalled, atomicVars>>

\* IsConnected returns; `&&` goes on to GetState for a connected record.
BroadcastRoomIsConnectedDone ==
    /\ tpc[TCaller] = "roomIsConnectedHeld"
    /\ IF IsConnected(client[tcur[TCaller]])
       THEN TaskStep(TCaller, "roomGetState", tcur[TCaller], tset[TCaller],
                     tout[TCaller], Unlocked(TCaller))
       ELSE BroadcastRoomRange(tset[TCaller], tout[TCaller])
    /\ UNCHANGED <<registryData, client, stalled, atomicVars>>

\* BroadcastToRoom: client.GetState() takes the record's lock.
BroadcastRoomGetState ==
    /\ tpc[TCaller] = "roomGetState"
    /\ CanAcquire(TCaller, Wants(TCaller))
    /\ TaskStep(TCaller, "roomGetStateHeld", tcur[TCaller], tset[TCaller],
                tout[TCaller], Locked(TCaller))
    /\ UNCHANGED <<registryData, client, stalled, atomicVars>>

\* GetState returns; a record in StateInGame joins the snapshot.
BroadcastRoomGetStateDone ==
    /\ tpc[TCaller] = "roomGetStateHeld"
    /\ BroadcastRoomRange(tset[TCaller],
                          IF GetState(client[tcur[TCaller]]) = StateInGame
                          THEN tout[TCaller] \cup {tcur[TCaller]}
                          ELSE tout[TCaller])
    /\ UNCHANGED <<registryData, client, stalled, atomicVars>>

\* The driver of connection c, with password reads.
SendDriver(c) ==
    \/ DriverLoop(c)
    \/ DriverTouch(c)
    \/ DriverTouchPassword(c)
    \/ DriverDispatch(c)
    \/ DriverReadError(c)
    \/ DriverSend(c)
    \/ DriverSent(c)
    \/ DriverSentSetState(c)
    \/ DriverSetState(c)
    \/ DriverPwEchoOff(c)
    \/ DriverPwEchoOffDone(c)
    \/ DriverPwRead(c)
    \/ DriverPwReadError(c)
    \/ DriverPwEchoOn(c)
    \/ DriverPwEchoOnDone(c)
    \/ DriverPwEchoOnErr(c)
    \/ DriverPwEchoOnErrDone(c)
    \/ DriverClose(c)

\* The steps of a driver that do not wait for the peer.
SendDriverOwn(c) ==
    \/ DriverLoop(c)
    \/ DriverTouch(c)
    \/ DriverTouchPassword(c)
    \/ DriverSend(c)
    \/ DriverSent(c)
    \/ DriverSetState(c)
    \/ DriverPwEchoOff(c)
    \/ DriverPwEchoOffDone(c)
    \/ DriverPwEchoOn(c)
    \/ DriverPwEchoOnDone(c)
    \/ DriverPwEchoOnErr(c)
    \/ DriverPwEchoOnErrDone(c)
    \/ DriverClose(c)

\* The steps of BroadcastToAll and BroadcastToRoom after the call.
Broadcaster ==
    \/ BroadcastRLock \/ BroadcastIsConnected \/ BroadcastIsConnectedDone
    \/ BroadcastRoomRLock \/ BroadcastRoomIsConnected
    \/ BroadcastRoomIsConnectedDone
    \/ BroadcastRoomGetState \/ BroadcastRoomGetStateDone
    \/ BroadcastSendLock \/ BroadcastSendFlush

\* A running server whose peers log in to the existing account and select a
\* character, and one outside caller that broadcasts, to all or to a room,
\* again and again. Every task that can take a step eventually takes one; no
\* line, no connection and no broadcast is bound to arrive.
NextSend ==
    \/ StartServer
    \/ AcceptLoop \/ AcceptConn \/ AcceptCount \/ AcceptCreate
    \/ \E c \in Conns : SendDriver(c)
    \/ CallBroadcast
    \/ CallBroadcastRoom
    \/ Broadcaster

FairSend ==
    /\ WF_vars(StartServer)
    /\ SF_vars(AcceptLoop \/ AcceptCount \/ AcceptCreate)
    /\ SF_vars(Broadcaster)
    /\ \A c \in Conns : SF_vars(SendDriverOwn(c))

SpecSend == Init /\ [][NextSend]_vars /\ FairSend

\* ------------------------------------------------------- SpecReadPassword
\* One call of Client.ReadPassword on the bytes a peer sends, byte by byte.
\* A Go string is the sequence of its bytes.

\* The longest input of a call.
MaxStream == 5

IAC == 255
LF == 10
CR == 13

\* The bytes a peer sends: a letter, a byte above 127, CR, LF, IAC and WILL.
PeerBytes == {97, 233, CR, LF, IAC, 251}

\* The inputs of a call: the bytes that arrive before the stream fails.
Streams == UNION {[1..n -> PeerBytes] : n \in 0..MaxStream}

WillEcho == <<IAC, 251, 1>>
WontEcho == <<IAC, 252, 1>>

\* string(char) of a byte: the UTF-8 encoding of the code point char.
ByteToString(char) ==
    IF char < 128 THEN <<char>>
    ELSE <<192 + (char \div 64), 128 + (char % 64)>>

\* A write to the stream, and whether it succeeded.
Wrote(bytes, ok) == [bytes |-> bytes, ok |-> ok]

\* A failed ReadByte of the loop that returns without a write.
ReadErrorNoRestore(ok) == <<>>

\* A failed ReadByte of the loop: c.conn.Write(IAC WONT ECHO), its error
\* ignored.
ReadErrorRestore(ok) == <<Wrote(WontEcho, ok)>>

\* ReadPassword is called: c.conn.Write(IAC WILL ECHO); a failed write
\* returns its error.
ReadPasswordCall ==
    /\ rp.pc = "idle"
    /\ \E st \in Streams, ok \in BOOLEAN :
         rp' = [rp EXCEPT !.stream = st,
                          !.wire = <<Wrote(WillEcho, ok)>>,
                          !.pc = IF ok THEN "loop" ELSE "returned",
                          !.result = [line |-> <<>>,
                                      err |-> IF ok THEN "" ELSE "write failed"]]
    /\ UNCHANGED <<regVars, recVars, acceptVars, reaperVars, pcStop, driverVars,
                   storeVars, lockVars, hc, gs>>

\* The loop: c.reader.ReadByte() and what the byte is.
ReadPasswordByte ==
    /\ rp.pc = "loop"
    /\ IF rp.pos > Len(rp.stream)
       THEN \E ok \in BOOLEAN :
              rp' = [rp EXCEPT !.wire = @ \o ReadErrorRestore(ok),
                               !.result = [line |-> <<>>, err |-> "read failed"],
                               !.pc = "returned"]
       ELSE LET char == rp.stream[rp.pos] IN
            rp' = [rp EXCEPT !.pos = @ + 1,
                             !.pc = IF char = IAC THEN "command"
                                    ELSE IF char = LF THEN "restore"
                                    ELSE "loop",
                             !.line = IF char \in {IAC, LF, CR} THEN @
                                      ELSE @ \o ByteToString(char)]
    /\ UNCHANGED <<regVars, recVars, acceptVars, reaperVars, pcStop, driverVars,
                   storeVars, lockVars, hc, gs>>

\* After IAC: c.reader.ReadByte() for the command, its result ignored.
ReadPasswordCommand ==
    /\ rp.pc = "command"
    /\ rp' = [rp EXCEPT !.pos = IF @ > Len(rp.stream) THEN @ ELSE @ + 1,
                        !.pc = "option"]
    /\ UNCHANGED <<regVars, recVars, acceptVars, reaperVars, pcStop, driverVars,
                   storeVars, lockVars, hc, gs>>

\* c.reader.ReadByte() for the option, its result ignored; `continue`.
ReadPasswordOption ==
    /\ rp.pc = "option"
    /\ rp' = [rp EXCEPT !.pos = IF @ > Len(rp.stream) THEN @ ELSE @ + 1,
                        !.pc = "loop"]
    /\ UNCHANGED <<regVars, recVars, acceptVars, reaperVars, pcStop, driverVars,
                   storeVars, lockVars, hc, gs>>

\* After the loop: c.conn.Write(IAC WONT ECHO), a failed write returns its
\* error; then the newline, and the line is returned.
ReadPasswordRestore ==
    /\ rp.pc = "restore"
    /\ \E ok \in BOOLEAN :
         rp' = [rp EXCEPT !.wire = IF ok
                                   THEN @ \o <<Wrote(WontEcho, TRUE),
                                               Wrote(<<CR, LF>>, TRUE)>>
                                   ELSE @ \o <<Wrote(WontEcho, FALSE)>>,
                          !.result = IF ok THEN [line |-> rp.line, err |-> ""]
                                     ELSE [line |-> <<>>, err |-> "write failed"],
                          !.pc = "returned"]
    /\ UNCHANGED <<regVars, recVars, acceptVars, reaperVars, pcStop, driverVars,
                   storeVars, lockVars, hc, gs>>

NextReadPassword ==
    \/ ReadPasswordCall
    \/ ReadPasswordByte
    \/ ReadPasswordCommand
    \/ ReadPasswordOption
    \/ ReadPasswordRestore

SpecReadPassword == Init /\ [][NextReadPassword]_vars

\* ------------------------------------------------------- SpecHandleClient
\* One connection: the goroutine Start spawns for it, the lines its peer
\* sends, the clock, and the other tasks that may close the record.
MaxLines == 3
MaxTime == 3
PeerLines == {"north", "south"}

\* A handler started with a go statement: the loop goes on at once.
GoHandler == "top"

\* HandleClient calls the handler the switch chose: the loop waits for it.
CallHandler == "handler"

hcRest == <<regVars, recVars, acceptVars, reaperVars, pcStop, driverVars,
            storeVars, lockVars, rp, gs>>

\* A log entry: what happened, to which line (by arrival number), in which
\* handler.
Event(ev, idx, handler) == [ev |-> ev, idx |-> idx, handler |-> handler]

\* The states with a case in HandleClient's switch.
HandledStates ==
    {StateConnected, StateAuthenticating, StateCreatingAccount,
     StateConfirmingPassword, StateCharacterSelection, StateInGame}

\* The states the handler called for state s sets with client.SetState.
HandlerGoes(s) ==
    CASE s = StateConnected          -> {StateAuthenticating, StateCreatingAccount}
      [] s = StateAuthenticating     -> {StateCharacterSelection}
      [] s = StateCreatingAccount    -> {StateConfirmingPassword}
      [] s = StateConfirmingPassword -> {StateCharacterSelection}
      [] s = StateCharacterSelection -> {StateInGame}
      [] s = StateInGame             -> {StateCharacterSelection}
      [] OTHER                       -> {}

\* Start: go cm.handler.HandleClient(client), once for the record createClient
\* returned.
HcStart ==
    /\ hc.pc = "none"
    /\ hc' = [hc EXCEPT !.pc = "top"]
    /\ UNCHANGED hcRest

\* for client.IsConnected(): another iteration, or the deferred Close.
HcLoop ==
    /\ hc.pc = "top"
    /\ hc' = IF hc.connected
             THEN [hc EXCEPT !.pc = "call"]
             ELSE [hc EXCEPT !.pc = "done"]
    /\ UNCHANGED hcRest

\* HandleClient tests only client.GetState() == StateAuthenticating.
HcSampleConfirmingSkipped ==
    /\ hc.pc = "call2"
    /\ hc' = [hc EXCEPT !.mode = "line", !.pc = "touch"]
    /\ UNCHANGED hcRest

\* if client.GetState() == StateAuthenticating: the first sample of the
\* state; when it holds, the read is ReadPassword.
HcSampleAuthenticating ==
    /\ hc.pc = "call"
    /\ hc' = IF hc.state = StateAuthenticating
             THEN [hc EXCEPT !.mode = "password", !.pc = "touch"]
             ELSE [hc EXCEPT !.pc = "call2"]
    /\ UNCHANGED hcRest

\* || client.GetState() == StateConfirmingPassword: the second sample; when
\* it holds the read is ReadPassword, else ReadLine.
HcSampleConfirming ==
    /\ hc.pc = "call2"
    /\ hc' = [hc EXCEPT !.mode = IF hc.state = StateConfirmingPassword
                                  THEN "password" ELSE "line",
                        !.pc = "touch"]
    /\ UNCHANGED hcRest

\* ReadLine or ReadPassword is called: c.updateLastActive() is its first
\* statement, then the read blocks.
HcReadCall ==
    /\ hc.pc = "touch"
    /\ hc' = [hc EXCEPT !.before = hc.lastActive,
                        !.lastActive = hc.now,
                        !.pc = "reading"]
    /\ UNCHANGED hcRest

\* The read returns the next line of the stream. ReadLine returns a line
\* that is in its buffer even after Close; ReadPassword writes to the stream
\* before and after its bytes, which fails on a closed stream.
HcReadReturn ==
    /\ hc.pc = "reading"
    /\ hc.next < Len(hc.arrived)
    /\ hc.mode = "password" => hc.connected
    /\ hc' = [hc EXCEPT !.next = @ + 1,
                        !.modes = Append(@, hc.mode),
                        !.got = hc.next + 1,
                        !.obtainedAt = hc.now,
                        !.log = Append(@, Event("read", hc.next + 1, "")),
                        !.pc = "switch"]
    /\ UNCHANGED hcRest

\* The read fails: the stream was closed by Close, or the peer went away and
\* nothing is left to read. The loop breaks and the deferred Close runs.
HcReadError ==
    /\ hc.pc = "reading"
    /\ ~hc.connected \/ (~hc.peerOpen /\ hc.next = Len(hc.arrived))
    /\ hc' = [hc EXCEPT !.readFailed = TRUE,
                        !.connected = FALSE,
                        !.state = IF hc.connected THEN StateDisconnecting ELSE @,
                        !.pc = "done"]
    /\ UNCHANGED hcRest

\* switch client.GetState(): the handler of the state is called with the
\* line; a state without a case calls none.
HcDispatch ==
    /\ hc.pc = "switch"
    /\ hc' = IF hc.state \in HandledStates
             THEN [hc EXCEPT !.running = @ \cup {hc.got},
                             !.handler = hc.state,
                             !.log = Append(@, Event("start", hc.got, hc.state)),
                             !.pc = CallHandler]
             ELSE [hc EXCEPT !.pc = "top"]
    /\ UNCHANGED hcRest

\* A handler returns, having kept the state, set the state its code sets
\* (on a record another task has closed meanwhile as well), or closed the
\* record.
HcHandlerReturn ==
    /\ \E i \in hc.running :
       \E s2 \in {hc.state, StateDisconnecting} \cup HandlerGoes(hc.handler) :
         hc' = [hc EXCEPT !.running = @ \ {i},
                          !.log = Append(@, Event("end", i, "")),
                          !.state = IF s2 = StateDisconnecting /\ ~hc.connected
                                    THEN @ ELSE s2,
                          !.connected = IF s2 = StateDisconnecting THEN FALSE ELSE @,
                          !.pc = IF @ = "handler" THEN "top" ELSE @]
    /\ UNCHANGED hcRest

\* The peer sends a line.
HcPeerSend ==
    /\ hc.peerOpen
    /\ Len(hc.arrived) < MaxLines
    /\ \E l \in PeerLines : hc' = [hc EXCEPT !.arrived = Append(@, l)]
    /\ UNCHANGED hcRest

\* The peer closes its end.
HcPeerClose ==
    /\ hc.peerOpen
    /\ hc' = [hc EXCEPT !.peerOpen = FALSE]
    /\ UNCHANGED hcRest

\* Stop, the reaper or RegisterPlayerClient closes the record.
HcClose ==
    /\ hc.pc # "none"
    /\ hc.connected
    /\ hc' = [hc EXCEPT !.connected = FALSE, !.state = StateDisconnecting]
    /\ UNCHANGED hcRest

\* Time passes.
HcTick ==
    /\ hc.now < MaxTime
    /\ hc' = [hc EXCEPT !.now = @ + 1]
    /\ UNCHANGED hcRest

NextHandleClient ==
    \/ HcStart
    \/ HcLoop
    \/ HcSampleAuthenticating
    \/ HcSampleConfirming
    \/ HcReadCall
    \/ HcReadReturn
    \/ HcReadError
    \/ HcDispatch
    \/ HcHandlerReturn
    \/ HcPeerSend
    \/ HcPeerClose
    \/ HcClose
    \/ HcTick

SpecHandleClient == Init /\ [][NextHandleClient]_vars

\* ---------------------------------------------------------- SpecGetStats
\* One caller of GetStats beside the accept loop, the removals and the
\* drivers and closers that change the records' states.

gsRest == <<regVars, recVars, acceptVars, reaperVars, pcStop, driverVars,
            storeVars, lockVars, rp, hc>>

\* GetStats holds cm.mutex.RLock from its first statement to its return.
GetStatsHoldsRLock == gs.pc \in {"range", "switch", "if"}

\* case StateCharacterSelection only.
CountedAuthenticatedSelectionOnly(s) == s = StateCharacterSelection

\* case StateCharacterSelection, StateInGame.
CountedAuthenticated(s) == s \in {StateCharacterSelection, StateInGame}

\* The authenticated and in-game records of registry reg when the states are
\* st, as a pair of counts.
Counts(reg, st) ==
    <<Cardinality({c \in reg : st[c] \in {StateCharacterSelection, StateInGame}}),
      Cardinality({c \in reg : st[c] = StateInGame})>>

\* A record changes state while GetStats may be running: the moment is
\* remembered while the call holds the lock.
RecordState(c, s) ==
    gs' = [gs EXCEPT !.state[c] = s,
                     !.snaps = IF GetStatsHoldsRLock
                               THEN @ \cup {Counts(gs.reg, [gs.state EXCEPT ![c] = s])}
                               ELSE @,
                     !.changed = IF GetStatsHoldsRLock THEN TRUE ELSE @]

\* createClient: cm.mutex.Lock() excludes a running GetStats.
GsCreateClient ==
    /\ ~GetStatsHoldsRLock
    /\ gs.made < MaxRecords
    /\ gs' = [gs EXCEPT !.made = @ + 1, !.reg = @ \cup {gs.made + 1}]
    /\ UNCHANGED gsRest

\* RemoveClient: cm.mutex.Lock() excludes a running GetStats.
GsRemoveClient ==
    /\ ~GetStatsHoldsRLock
    /\ \E c \in gs.reg :
         gs' = [gs EXCEPT !.reg = @ \ {c}, !.state[c] = StateDisconnecting]
    /\ UNCHANGED gsRest

\* A driver's handler calls client.SetState, under the record's lock only.
GsSetState ==
    /\ \E c \in gs.reg :
       \E s \in HandlerSetState(gs.state[c]) : RecordState(c, s)
    /\ UNCHANGED gsRest

\* Client.Close on a registered record, under the record's lock only.
GsClose ==
    /\ \E c \in gs.reg :
         /\ gs.state[c] # StateDisconnecting
         /\ RecordState(c, StateDisconnecting)
    /\ UNCHANGED gsRest

\* GetStats: cm.mutex.RLock(); TotalClients: len(cm.clients); the range
\* begins.
GetStatsCall ==
    /\ gs.pc \in {"idle", "returned"}
    /\ gs' = [gs EXCEPT !.pc = "range", !.snapReg = gs.reg,
                        !.snapState = gs.state, !.rest = gs.reg,
                        !.cur = 0, !.total = Cardinality(gs.reg),
                        !.auth = 0, !.ingame = 0,
                        !.snaps = {Counts(gs.reg, gs.state)},
                        !.changed = FALSE]
    /\ UNCHANGED gsRest

\* for _, client := range cm.clients: the next record, or the return with
\* the deferred RUnlock.
GetStatsNext ==
    /\ gs.pc = "range"
    /\ IF gs.rest = {}
       THEN gs' = [gs EXCEPT !.pc = "returned", !.cur = 0]
       ELSE \E c \in gs.rest :
              gs' = [gs EXCEPT !.pc = "switch", !.cur = c, !.rest = @ \ {c}]
    /\ UNCHANGED gsRest

\* switch client.GetState(): AuthenticatedClients++ in the case of the two
\* authenticated states.
GetStatsSwitch ==
    /\ gs.pc = "switch"
    /\ gs' = IF CountedAuthenticated(gs.state[gs.cur])
             THEN [gs EXCEPT !.auth = @ + 1, !.pc = "if"]
             ELSE [gs EXCEPT !.pc = "range"]
    /\ UNCHANGED gsRest

\* if client.GetState() == StateInGame: InGameClients++.
GetStatsIf ==
    /\ gs.pc = "if"
    /\ gs' = [gs EXCEPT !.ingame = IF gs.state[gs.cur] = StateInGame
                                   THEN @ + 1 ELSE @,
                        !.pc = "range"]
    /\ UNCHANGED gsRest

NextGetStats ==
    \/ GsCreateClient
    \/ GsRemoveClient
    \/ GsSetState
    \/ GsClose
    \/ GetStatsCall
    \/ GetStatsNext
    \/ GetStatsSwitch
    \/ GetStatsIf

SpecGetStats == Init /\ [][NextGetStats]_vars

\* ================================================================== claims

\* The edges of the session table.
SessionEdges ==
    {<<StateConnected, StateAuthenticating>>,
     <<StateConnected, StateCreatingAccount>>,
     <<StateConnected, StateDisconnecting>>,
     <<StateAuthenticating, StateCharacterSelection>>,
     <<StateAuthenticating, StateDisconnecting>>,
     <<StateCreatingAccount, StateConfirmingPassword>>,
     <<StateCreatingAccount, StateDisconnecting>>,
     <<StateConfirmingPassword, StateCharacterSelection>>,
     <<StateConfirmingPassword, StateDisconnecting>>,
     <<StateCharacterSelection, StateInGame>>,
     <<StateCharacterSelection, StateDisconnecting>>,
     <<StateInGame, StateDisconnecting>>}

\* C1: every connection starts in state Connected, and in every step the
\* state of a connection either stays or moves along an edge of the session
\* table.
C1_TransitionsFollowTable ==
    [][\A c \in Conns :
        /\ (c \notin created /\ c \in created') => client'[c].state = StateConnected
        /\ (c \in created /\ client'[c].state # client[c].state)
              => <<client[c].state, client'[c].state>> \in SessionEdges]_vars

\* C2: the player-id index maps each player id to at most one record, and a
\* RegisterPlayerClient(p, new) that finds a record old registered for p
\* leaves old disconnected, p mapped to new and new.playerID = p.
C2_RegisterEvicts ==
    [][/\ playerClients' \in [PlayerIDs -> Conns \cup {NoClient}]
       /\ \A p \in ApiPlayerIDs, new \in created :
            (RegisterPlayerClient(p, new) /\ playerClients[p] # NoClient)
               => /\ ~client'[playerClients[p]].connected
                  /\ playerClients'[p] = new
                  /\ client'[new].playerID = p]_vars

\* C2 witness: a registration for p has evicted old in favour of new.
C2_Witness ==
    \E p \in ApiPlayerIDs, old \in evicted, new \in created :
        /\ old # new
        /\ playerClients[p] = new
        /\ client[old].playerID = p
        /\ ~client[old].connected
        /\ client[new].connected
        /\ client[new].playerID = p

\* C3: every record in the player-id map is also in the connection-id map.
C3_PlayerMapWithinClientMap ==
    \A p \in PlayerIDs : playerClients[p] # NoClient => playerClients[p] \in clients

C5_IdleConnectionReaped ==
    \A c \in Conns :
        (/\ c \in clients /\ running
         /\ IsConnected(client[c]) /\ IsIdle(client[c])
         /\ tpc[DriverTask(c)] = "read")
           ~> (c \notin clients \/ ~running \/ tpc[DriverTask(c)] # "read")

\* The tasks task t is waiting for: the holders of the lock it calls for and,
\* for a read lock, the writers that have called for it.
WaitsOn(t) ==
    IF Wants(t) = NoLock THEN {}
    ELSE IF Wants(t).mode = "W" THEN Holders(Wants(t).lock)
    ELSE WriteHolders(Wants(t).lock) \cup (PendingWriters(Wants(t).lock) \ {t})

\* The tasks of B that wait for a task of B, and so on: what is left is the
\* set of tasks that can never go on.
RECURSIVE Deadlocked(_)
Deadlocked(B) ==
    LET B2 == {t \in B : WaitsOn(t) \cap B # {}}
    IN IF B2 = B THEN B ELSE Deadlocked(B2)

C11_StopEndsAcceptLoopAndReaper ==
    tpc[TStop] # "idle"
        ~> (tpc[TAccept] = "returned" /\ tpc[TReaper] = "returned")

\* C12: Close is idempotent and callable from any task: on every record the
\* server has created, whichever tasks have closed it before, Close leaves the
\* record disconnected, in state Disconnecting and with its stream closed
\* exactly once, and a Close of a closed record changes nothing.
C12_CloseIdempotent ==
    \A c \in created :
        LET r == client[c]
            k == Close(r)
        IN  /\ ~IsConnected(k)
            /\ GetState(k) = StateDisconnecting
            /\ k.streamCloses = 1
            /\ Close(k) = k
            /\ ~IsConnected(r) => k = r

\* C12 witness: RemoveClient has closed a record and removed it, and the
\* deferred Close of its driver has run as well.
C12_Witness ==
    \E c \in created :
        /\ c \notin clients
        /\ pcDriver[c] = "done"
        /\ client[c].streamCloses = 1

\* C13: Disconnecting is terminal: the state of a record that is Disconnecting
\* never changes again, whichever task closed it.
C13_DisconnectingTerminal ==
    [][\A c \in created :
          GetState(client[c]) = StateDisconnecting
             => GetState(client'[c]) = StateDisconnecting]_vars

\* C14: writes to one connection are serialized: whatever the interleaving
\* of a broadcaster's Send with the reads and sends of the record's driver,
\* at most one task at a time is writing to the stream or the output buffer
\* of a connection.
C14_WritesSerialized ==
    \A c \in Conns : Cardinality(Writers(c)) <= 1

\* C15: on a record that has been closed, by whichever task, every Send and
\* every SendPrompt a handler or the welcome can make returns
\* ErrClientDisconnected and writes nothing to the stream.
C15_SendOnClosedFails ==
    \A c \in created :
        LET r == client[c]
            failed(ret) ==
                \A i \in DOMAIN ret :
                    ret[i].err = ErrClientDisconnected /\ ret[i].wrote = <<>>
        IN  ~IsConnected(r) =>
              /\ failed(Returned(r, welcomeSends))
              /\ \A s \in ClientState : \A l \in InputsFor(s) :
                   \A dbErr \in BOOLEAN, hashErr \in BOOLEAN :
                      failed(Returned(r, HandledSends(r, s, l, dbErr, hashErr)))

\* The driver has made its calls on a record that another task had closed:
\* they returned the error and wrote nothing.
C15_Witness ==
    \E c \in created :
        /\ pcDriver[c] = "loop"
        /\ ~IsConnected(client[c])
        /\ Len(sent[c]) >= 2
        /\ \A i \in DOMAIN sent[c] :
             sent[c][i].err = ErrClientDisconnected /\ sent[c][i].wrote = <<>>

\* The records a broadcast in progress has chosen and not yet sent to.
Recipients ==
    IF tpc[TCaller] \in {"send", "sending"}
    THEN tout[TCaller] \cup {tcur[TCaller]}
    ELSE tout[TCaller]

\* The broadcaster holds cm.mutex.
BroadcastHoldsRegistry ==
    \E i \in 1..Len(held[TCaller]) : held[TCaller][i].lock = RegistryMutex

\* No task of a broadcast is in client.Send while it holds cm.mutex.
BroadcastSendsOutsideLock ==
    tpc[TCaller] \in {"send", "sending"} => ~BroadcastHoldsRegistry

\* C16 (as the code has it): BroadcastToAll and BroadcastToRoom make every
\* send after releasing the registry lock. A record becomes a recipient only
\* when it is examined under the registry lock: in BroadcastToAll exactly
\* when it is registered and IsConnected finds it connected; in
\* BroadcastToRoom exactly when IsConnected finds it connected and the
\* GetState that follows finds it InGame. Every record that is registered and
\* connected when BroadcastToAll releases the lock is a recipient.
C16_SnapshotThenSend ==
    /\ []BroadcastSendsOutsideLock
    /\ [][LET cur == tcur[TCaller]
              leaves(pc) == tpc[TCaller] = pc /\ tpc'[TCaller] # pc
          IN
          /\ leaves("bcIsConnectedHeld") =>
                /\ cur \in clients
                /\ cur \in Recipients' <=> IsConnected(client[cur])
                /\ ~BroadcastHoldsRegistry' =>
                      {c \in clients : IsConnected(client[c])} \subseteq Recipients'
          /\ leaves("roomIsConnectedHeld") =>
                /\ cur \in clients
                /\ ~IsConnected(client[cur]) => cur \notin Recipients'
                /\ IsConnected(client[cur]) => tpc'[TCaller] = "roomGetState"
          /\ leaves("roomGetStateHeld") =>
                cur \in Recipients' <=> GetState(client[cur]) = StateInGame
          /\ tpc[TCaller] \notin {"bcIsConnectedHeld", "roomGetStateHeld"} =>
                Recipients' \subseteq Recipients
          /\ Recipients' \subseteq Recipients \cup {cur}
         ]_vars

\* A broadcast is inside Send to one recipient, outside the registry lock,
\* with another recipient still to come and a third party registered.
C16_Witness ==
    /\ tpc[TCaller] = "sending"
    /\ held[TCaller] = <<Lk(tcur[TCaller], "W")>>
    /\ tout[TCaller] # {}
    /\ GetState(client[tcur[TCaller]]) = StateInGame

\* C16 (as stated): every send of a broadcast is made outside the registry
\* lock and the recipients are exactly the records registered and connected
\* at the moment of the snapshot. If record a is among the recipients and is
\* already closed while record b is still registered and connected, no moment
\* of the snapshot has a connected and b not: b is a recipient too.
C16_RecipientsAreSnapshot ==
    /\ []BroadcastSendsOutsideLock
    /\ \A a, b \in Conns :
         []((/\ tpc[TCaller] = "bcIsConnected"
             /\ tcur[TCaller] = b
             /\ a \in tout[TCaller]
             /\ ~IsConnected(client[a])
             /\ IsConnected(client[b]))
               => [](~(/\ tpc[TCaller] = "bcIsConnectedHeld"
                       /\ tcur[TCaller] = b
                       /\ a \in tout[TCaller]
                       /\ ~IsConnected(client[b]))))

\* The ordinary characters of a stream up to its terminating newline, the
\* three bytes of every control sequence and every carriage return left out.
RECURSIVE OrdinaryFrom(_, _)
OrdinaryFrom(st, i) ==
    IF i > Len(st) \/ st[i] = LF THEN <<>>
    ELSE IF st[i] = IAC THEN OrdinaryFrom(st, i + 3)
    ELSE IF st[i] = CR THEN OrdinaryFrom(st, i + 1)
    ELSE <<st[i]>> \o OrdinaryFrom(st, i + 1)

\* The stream is made of ordinary characters, carriage returns and whole
\* three-byte control sequences, and ends with its one newline.
RECURSIVE WellFormedFrom(_, _)
WellFormedFrom(st, i) ==
    IF i > Len(st) THEN FALSE
    ELSE IF st[i] = LF THEN i = Len(st)
    ELSE IF st[i] = IAC THEN i + 2 <= Len(st) /\ WellFormedFrom(st, i + 3)
    ELSE WellFormedFrom(st, i + 1)

\* C17: on every stream of ordinary characters, carriage returns and
\* three-byte control sequences that ends with a newline, ReadPassword
\* returns exactly the ordinary characters received, in order.
C17_PasswordIsOrdinaryCharacters ==
    (/\ rp.pc = "returned"
     /\ WellFormedFrom(rp.stream, 1)
     /\ \A i \in DOMAIN rp.wire : rp.wire[i].ok)
        => /\ rp.result.err = ""
           /\ rp.result.line = OrdinaryFrom(rp.stream, 1)

\* C18: every call of ReadPassword whose write of IAC WILL ECHO succeeded
\* writes IAC WONT ECHO, once, before it returns: after the newline and after
\* every failed read, a read that fails inside a control sequence included.
\* No error is returned before that write.
C18_EchoRestoredBeforeReturn ==
    /\ rp.pc # "returned" => rp.result.err = ""
    /\ (rp.pc = "returned" /\ rp.wire[1].ok) =>
          /\ Len(rp.wire) >= 2
          /\ rp.wire[2].bytes = WontEcho
          /\ Cardinality({i \in DOMAIN rp.wire : rp.wire[i].bytes = WontEcho}) = 1
          /\ rp.result.err = "" =>
                /\ rp.wire[2].ok
                /\ rp.stream[rp.pos - 1] = LF

\* The stream failed inside a control sequence, after the IAC byte, and the
\* call has returned the read error.
C18_Witness ==
    /\ rp.pc = "returned"
    /\ rp.result.err = "read failed"
    /\ rp.stream = <<97, IAC>>
    /\ rp.line = <<97>>
    /\ rp.wire = <<Wrote(WillEcho, TRUE), Wrote(WontEcho, TRUE)>>

\* What the calls of a handler put on the wire, call by call.
SentText(log) == [i \in DOMAIN log |-> log[i].wrote]

\* The driver of c runs a handler on a record that is still connected.
HandlerStep(c) ==
    /\ pcDriver[c] = "handle"
    /\ pcDriver'[c] = "loop"
    /\ IsConnected(client[c])

\* The password of a line: the line itself, or the line after TrimSpace.
PasswordOf(l, trimmed) == IF trimmed THEN TrimSpace(l) ELSE l

CharacterMenuText ==
    SentText(Returned([NoRecord EXCEPT !.connected = TRUE], showCharacterMenuSends))

\* The four handler calls of account creation, the password of a line being
\* PasswordOf(line, trimmed).
AccountCreationSteps(trimmed) ==
    \A c \in Conns : HandlerStep(c) =>
        LET r    == client[c]
            r2   == client'[c]
            l    == line[c]
            w    == TrimSpace(l)
            pw   == PasswordOf(l, trimmed)
            out  == SentText(sent'[c])
        IN
        /\ (/\ dispatched[c] = StateConnected
            /\ w \in Usernames
            /\ players[w] = NoPlayer)
           => /\ r2.state = StateCreatingAccount
              /\ IsConnected(r2)
              /\ out = << <<"New player! Creating account for: ", w, "\r\n">>,
                          <<"Please enter your email address:", "\r\n">>,
                          <<"Email: ">> >>
        /\ (/\ dispatched[c] = StateCreatingAccount
            /\ ValidEmail(w)
            /\ \A u \in Usernames : players[u].email # w)
           => /\ r2.state = StateConfirmingPassword
              /\ IsConnected(r2)
              /\ out = << <<"Please choose a password (minimum 6 characters):", "\r\n">> >>
        /\ (/\ dispatched[c] = StateConfirmingPassword
            /\ r.tempPassword = ""
            /\ Len(pw) >= 6)
           => /\ r2.state = StateConfirmingPassword
              /\ IsConnected(r2)
              /\ r2.tempPassword = pw
              /\ out = << <<"Please confirm your password:", "\r\n">> >>
        /\ (/\ dispatched[c] = StateConfirmingPassword
            /\ r.tempPassword # ""
            /\ pw = r.tempPassword)
           => \/ /\ r2.state = StateCharacterSelection
                 /\ IsConnected(r2)
                 /\ r2.playerID = NewPlayerID
                 /\ players'[r.tempUsername].id = NewPlayerID
                 /\ out = << <<"Account created successfully! Welcome to DungeoGo, %s!",
                               r.tempUsername, "\r\n">> >> \o CharacterMenuText
              \/ /\ ~IsConnected(r2)
                 /\ players' = players
                 /\ out \in
                      { << <<"Failed to create account due to internal error.", "\r\n">> >>,
                        << <<"Failed to create account. Username might already be taken.",
                             "\r\n">> >> }

\* C19: on a connected record, an unknown username moves Connected to
\* CreatingAccount with the email prompt; a valid unregistered email moves to
\* ConfirmingPassword with the password prompt; a first password of at least
\* 6 characters after TrimSpace is kept as pending with the confirmation
\* prompt; the same password again moves to CharacterSelection with the
\* account-created message and the character menu and playerID set to the new
\* player's id, unless the hash or the store's create fails, which sends a
\* failure message and closes the record.
C19_AccountCreation == [][AccountCreationSteps(TRUE)]_vars

\* C19 as stated: the first password is the line as sent, at least 6
\* characters long.
C19_AccountCreationUntrimmed == [][AccountCreationSteps(FALSE)]_vars

\* The four steps have run: the record is in CharacterSelection under the new
\* player's id, after the account-created message and the menu.
C19_Witness ==
    \E c \in created :
        /\ pcDriver[c] = "loop"
        /\ IsConnected(client[c])
        /\ dispatched[c] = StateConfirmingPassword
        /\ client[c].state = StateCharacterSelection
        /\ client[c].playerID = NewPlayerID
        /\ players["bob"].id = NewPlayerID
        /\ SentText(sent[c]) =
             << <<"Account created successfully! Welcome to DungeoGo, %s!",
                  "bob", "\r\n">> >> \o CharacterMenuText

\* handlePasswordAuth on a password that does not match the credential of the
\* record's player, the password of a line being PasswordOf(line, trimmed).
InvalidPasswordSteps(trimmed) ==
    \A c \in Conns : (HandlerStep(c) /\ dispatched[c] = StateAuthenticating) =>
        LET r   == client[c]
            r2  == client'[c]
            pw  == PasswordOf(line[c], trimmed)
            out == SentText(sent'[c])
        IN
        (/\ pw # ""
         /\ \E u \in Usernames :
              /\ players[u] # NoPlayer
              /\ players[u].id = r.playerID
              /\ players[u].active
              /\ ~PasswordMatches(players[u].password, pw))
        => /\ ~IsConnected(r2)
           /\ r2.state # StateCharacterSelection
           /\ out \in { << <<"Invalid password.", "\r\n">> >>,
                        << <<"Authentication failed.", "\r\n">> >> }

\* After "Invalid password." and the Close that follows it, the driver sends
\* nothing, handles no line and the state is never CharacterSelection.
NoRetry ==
    \A c \in Conns :
        (/\ pcDriver[c] \in {"loop", "done"}
         /\ dispatched[c] = StateAuthenticating
         /\ ~IsConnected(client[c])
         /\ sent[c] = << [err |-> "", wrote |-> <<"Invalid password.", "\r\n">>] >>)
        => /\ pcDriver'[c] \in {"loop", "done"}
           /\ sent'[c] = sent[c]
           /\ line'[c] = line[c]
           /\ ~IsConnected(client'[c])
           /\ client'[c].state # StateCharacterSelection

\* C20: in Authenticating, a line that is non-empty after TrimSpace and whose
\* trimmed text does not match the credential of the known, active player
\* makes the handler send "Invalid password." ("Authentication failed." when
\* the store fails) and close the record; the driver then sends nothing more,
\* handles no further line and the state never becomes CharacterSelection.
C20_InvalidPasswordCloses == [][InvalidPasswordSteps(TRUE) /\ NoRetry]_vars

\* C20 as stated: the password is the line as sent.
C20_InvalidPasswordClosesUntrimmed == [][InvalidPasswordSteps(FALSE) /\ NoRetry]_vars

\* The driver has ended after "Invalid password." was its only send.
C20_Witness ==
    \E c \in created :
        /\ pcDriver[c] = "done"
        /\ dispatched[c] = StateAuthenticating
        /\ ~IsConnected(client[c])
        /\ client[c].state = StateDisconnecting
        /\ sent[c] = << [err |-> "", wrote |-> <<"Invalid password.", "\r\n">>] >>

\* C21: on a connected record in CharacterSelection whose player is
\* authenticated, `create <name> <race> <class>` with a valid race and class
\* and a free name, the character store accepting, persists a character owned
\* by the record's player and leaves the state CharacterSelection; `select
\* <name>`, the name matched case-insensitively among the player's characters,
\* stores that character's id as characterID and moves the state to InGame.
C21_CreateThenSelect ==
    \A c \in created :
        (/\ pcDriver[c] = "handle"
         /\ dispatched[c] = StateCharacterSelection
         /\ IsConnected(client[c])
         /\ client[c].playerID # "")
        => LET r     == client[c]
               parts == Fields(TrimSpace(line[c]))
               cmd   == IF Len(parts) = 0 THEN "" ELSE ToLower(parts[1])
               r2    == Handled(r, StateCharacterSelection, line[c], FALSE, FALSE)
               store == handleCharacterSelectionStore(r, line[c], FALSE)
           IN
           /\ (/\ cmd \in {"create", "c"}
               /\ Len(parts) >= 4
               /\ ValidRace(ToLower(parts[3]))
               /\ ValidClass(ToLower(parts[4]))
               /\ parts[2] \in CharNames
               /\ characters[parts[2]] = NoCharacter)
              => /\ store[parts[2]] # NoCharacter
                 /\ store[parts[2]].owner = r.playerID
                 /\ r2.state = StateCharacterSelection
           /\ (/\ cmd \in {"select", "s"}
               /\ Len(parts) >= 2
               /\ \E n \in CharactersByPlayer(r.playerID) : EqualFold(n, parts[2]))
              => /\ \E n \in CharactersByPlayer(r.playerID) :
                       EqualFold(n, parts[2]) /\ r2.characterID = characters[n].id
                 /\ r2.state = StateInGame

\* C22: the lines a connection's goroutine reads are the lines that arrived,
\* in their order of arrival; a line is handed to at most one handler, right
\* after it was read; the next line is read only after that handler returned;
\* at most one handler of the connection is running.
C22_LinesInArrivalOrder ==
    LET log   == hc.log
        reads == SelectSeq(log, LAMBDA e : e.ev = "read")
    IN
    /\ Len(reads) = hc.next
    /\ \A k \in DOMAIN reads : reads[k].idx = k /\ k <= Len(hc.arrived)
    /\ \A j \in DOMAIN log :
         /\ log[j].ev = "read" => (j = 1 \/ log[j-1].ev = "end")
         /\ log[j].ev = "start" =>
              /\ j > 1
              /\ log[j-1] = Event("read", log[j].idx, "")
              /\ log[j].handler \in HandledStates
         /\ log[j].ev = "end" =>
              /\ j > 1
              /\ log[j-1].ev = "start"
              /\ log[j-1].idx = log[j].idx
    /\ \A i, j \in DOMAIN log :
         (log[i].ev = "start" /\ log[j].ev = "start" /\ log[i].idx = log[j].idx)
         => i = j
    /\ Cardinality(hc.running) <= 1
    /\ hc.pc \in {"call", "call2", "touch", "reading"} => hc.running = {}

\* Three different lines arrived, each was read and handled in turn, in
\* three different states.
C22_Witness ==
    /\ hc.arrived = <<"north", "south", "north">>
    /\ Len(hc.log) = 9
    /\ hc.log[9] = Event("end", 3, "")
    /\ hc.log[2].handler = StateConnected
    /\ hc.log[5].handler = StateAuthenticating
    /\ hc.log[8].handler = StateCharacterSelection

\* C25: when ReadLine or ReadPassword has returned a line, lastActive is the
\* time at which the line was obtained; when the read has failed, lastActive
\* is what it was before the call.
C25_LastActiveOnSuccessOnly ==
    /\ hc.pc = "switch" => hc.lastActive = hc.obtainedAt
    /\ (hc.pc = "done" /\ hc.readFailed) => hc.lastActive = hc.before

\* C23: a record in Connected, Authenticating, CreatingAccount or
\* ConfirmingPassword has an empty playerID; a record has a characterID only
\* after a successful select, that is the id of a character of its player in
\* a record that has reached InGame.
C23_IdsEmptyUntilSuccess ==
    \A c \in created :
        /\ client[c].state \in {StateConnected, StateAuthenticating,
                                StateCreatingAccount, StateConfirmingPassword}
           => client[c].playerID = ""
        /\ client[c].characterID # ""
           => /\ client[c].state \in {StateInGame, StateDisconnecting}
              /\ \E n \in CharactersByPlayer(client[c].playerID) :
                    characters[n].id = client[c].characterID

\* C24: when the confirmation handler has called createAccount, the record's
\* tempUsername, tempEmail and tempPassword are all empty when the handler
\* returns, whether the account was created or the hash or the store failed.
C24_TempDataCleared ==
    [][\A c \in Conns :
          (/\ pcDriver[c] = "handle"
           /\ pcDriver'[c] = "loop"
           /\ dispatched[c] = StateConfirmingPassword
           /\ ConfirmationMatches(client[c], line[c]))
          => /\ client'[c].tempUsername = ""
             /\ client'[c].tempEmail = ""
             /\ client'[c].tempPassword = ""]_vars

\* What a handler answers to a validation error, w being the text of the
\* line; <<>> when the line is no validation error in state s.
Reprompt(s, r, w) ==
    IF s = StateConnected /\ w = ""
    THEN << <<"Username cannot be empty. Please enter your username:", "\r\n">>,
            <<"> ">> >>
    ELSE IF s = StateAuthenticating /\ w = ""
    THEN << <<"Password cannot be empty. Please enter your password:", "\r\n">>,
            <<"Password: ">> >>
    ELSE IF s = StateCreatingAccount /\ w = ""
    THEN << <<"Email cannot be empty. Please enter your email address:", "\r\n">>,
            <<"Email: ">> >>
    ELSE IF s = StateCreatingAccount /\ ~ValidEmail(w)
    THEN << <<"Invalid email format. Please enter a valid email address:", "\r\n">>,
            <<"Email: ">> >>
    ELSE IF s = StateConfirmingPassword /\ r.tempPassword = "" /\ Len(w) < 6
    THEN << <<"Password must be at least 6 characters long.", "\r\n">>,
            <<"Please choose a password (minimum 6 characters):", "\r\n">> >>
    ELSE IF s = StateConfirmingPassword /\ r.tempPassword # "" /\ w # r.tempPassword
    THEN << <<"Passwords do not match.", "\r\n">>,
            <<"Please choose a password (minimum 6 characters):", "\r\n">> >>
    ELSE <<>>

\* A handler call on a validation error, the text of a line being
\* PasswordOf(line, trimmed).
ValidationErrorSteps(trimmed) ==
    \A c \in Conns : HandlerStep(c) =>
        LET r        == client[c]
            r2       == client'[c]
            expected == Reprompt(dispatched[c], r, PasswordOf(line[c], trimmed))
        IN  expected # <<>>
            => /\ IsConnected(r2)
               /\ r2.state = r.state
               /\ r2.playerID = r.playerID
               /\ players' = players
               /\ characters' = characters
               /\ SentText(sent'[c]) = expected

C27_StoreFailureTerminal ==
    \A c \in created :
        LET r == client[c]
            s == dispatched[c]
            w == TrimSpace(line[c])
            storeCalled ==
                \/ s = StateConnected /\ w # ""
                \/ s = StateAuthenticating /\ w # "" /\ r.playerID # ""
                \/ s = StateCreatingAccount /\ w # "" /\ ValidEmail(w)
                \/ s = StateConfirmingPassword /\ ConfirmationMatches(r, line[c])
            r2  == Handled(r, s, line[c], TRUE, FALSE)
            out == Returned(r, HandledSends(r, s, line[c], TRUE, FALSE))
        IN  (pcDriver[c] = "handle" /\ IsConnected(r) /\ storeCalled)
            => /\ ~IsConnected(r2)
               /\ r2.state = StateDisconnecting
               /\ Len(out) = 1

\* What the handlers answer to a suspended account and to a registered
\* email.
SuspendedText ==
    << <<"Your account has been suspended. Please contact an administrator.",
         "\r\n">> >>
EmailTakenText ==
    << <<"An account with this email already exists.", "\r\n">>,
       <<"Please try logging in or use a different email address.", "\r\n">> >>

\* The handler about to run on a connected record meets a domain conflict:
\* the store returns a player that is not active for the username, or a
\* player for the email. It answers and closes the record.
ConflictCloses ==
    \A c \in created :
        LET r   == client[c]
            s   == dispatched[c]
            w   == TrimSpace(line[c])
            r2  == Handled(r, s, line[c], FALSE, FALSE)
            out == SentText(Returned(r, HandledSends(r, s, line[c], FALSE, FALSE)))
        IN  (pcDriver[c] = "handle" /\ IsConnected(r)) =>
              /\ (s = StateConnected /\ w \in Usernames
                    /\ players[w] # NoPlayer /\ ~players[w].active)
                 => /\ ~IsConnected(r2)
                    /\ r2.state = StateDisconnecting
                    /\ out = SuspendedText
              /\ (s = StateCreatingAccount /\ ValidEmail(w)
                    /\ \E u \in Usernames : players[u] # NoPlayer /\ players[u].email = w)
                 => /\ ~IsConnected(r2)
                    /\ r2.state = StateDisconnecting
                    /\ out = EmailTakenText

\* A record closed on a domain conflict.
ClosedOnConflict(c) ==
    /\ pcDriver[c] \in {"loop", "done"}
    /\ ~IsConnected(client[c])
    /\ \/ dispatched[c] = StateConnected /\ SentText(sent[c]) = SuspendedText
       \/ dispatched[c] = StateCreatingAccount /\ SentText(sent[c]) = EmailTakenText

\* A record closed on a domain conflict has never been authenticated, stays
\* closed on the conflict and in Disconnecting, and its driver handles nothing
\* more.
ConflictIsFinal ==
    \A c \in Conns : ClosedOnConflict(c) =>
        /\ client[c].state = StateDisconnecting
        /\ \A i \in DOMAIN authOrder : authOrder[i] # c
        /\ ClosedOnConflict(c)'
        /\ client'[c].state = StateDisconnecting

\* C28: a username of an account that is not active, or an email that is
\* already registered, makes the handler send its message and close the
\* record; the record is in Disconnecting from then on and never in
\* Authenticating, ConfirmingPassword, CharacterSelection or InGame.
C28_DomainConflictsTerminal == []ConflictCloses /\ [][ConflictIsFinal]_vars

\* The driver has ended after the suspended-account answer was its only send.
C28_Witness ==
    \E c \in created :
        /\ pcDriver[c] = "done"
        /\ dispatched[c] = StateConnected
        /\ ~IsConnected(client[c])
        /\ client[c].state = StateDisconnecting
        /\ client[c].playerID = ""
        /\ sent[c] = << [err |-> "", wrote |-> SuspendedText[1]] >>

\* What handleGameCommand answers when the engine fails.
EngineErrorText == << <<"Error: %v", "engine error", "\r\n">>, <<"> ">> >>

\* The handler about to run on a connected record in InGame with a character:
\* if the engine fails, the record is left as it was and the answer is one
\* error line and the prompt.
EngineErrorSurfaced ==
    \A c \in created :
        LET r == client[c] IN
        (/\ pcDriver[c] = "handle"
         /\ dispatched[c] = StateInGame
         /\ IsConnected(r)
         /\ r.characterID # "")
        => /\ Handled(r, StateInGame, line[c], TRUE, FALSE) = r
           /\ SentText(Returned(r, HandledSends(r, StateInGame, line[c], TRUE, FALSE)))
                = EngineErrorText

\* A game command on a connected record with a character leaves the record as
\* it was, and the line read next on that record is again a game command.
InGameStaysInGame ==
    \A c \in Conns :
        /\ (/\ HandlerStep(c)
            /\ dispatched[c] = StateInGame
            /\ client[c].characterID # "")
           => client'[c] = client[c]
        /\ (/\ pcDriver[c] = "read"
            /\ pcDriver'[c] = "handle"
            /\ client[c].state = StateInGame)
           => /\ dispatched'[c] = StateInGame
              /\ client'[c].characterID # ""

\* C29: in InGame, an engine error is answered with one error line (and the
\* prompt) and changes nothing on the record: it stays connected, in InGame,
\* with the same characterID, and the next line read is a game command again.
C29_EngineErrorNonTerminal == []EngineErrorSurfaced /\ [][InGameStaysInGame]_vars

\* An engine error was answered: the record is as it was and the driver is
\* back at the top of its loop.
C29_Witness ==
    \E c \in created :
        /\ pcDriver[c] = "loop"
        /\ dispatched[c] = StateInGame
        /\ IsConnected(client[c])
        /\ client[c].state = StateInGame
        /\ client[c].characterID = "ch1"
        /\ SentText(sent[c]) = EngineErrorText

\* The result of a call of GetStats that has returned satisfies
\* 0 <= InGameClients <= AuthenticatedClients <= TotalClients, TotalClients is
\* the size of the connection-id map, which did not change during the call,
\* and a call on an empty map reports 0 total.
StatsBounds ==
    /\ GetStatsHoldsRLock => gs.reg = gs.snapReg
    /\ gs.pc = "returned" =>
         /\ gs.total = Cardinality(gs.snapReg)
         /\ 0 <= gs.ingame
         /\ gs.ingame <= gs.auth
         /\ gs.auth <= gs.total
         /\ gs.snapReg = {} => gs.total = 0

\* C30: GetStats counts the map under the registry read lock and reads each
\* record's state under that record's lock, once for AuthenticatedClients and
\* once more for InGameClients. Its result satisfies the bounds; when no
\* record changed state during the call, AuthenticatedClients and
\* InGameClients are the numbers of records that were in CharacterSelection
\* or InGame, and in InGame, when the call took the lock.
C30_StatsCounts ==
    /\ StatsBounds
    /\ (gs.pc = "returned" /\ ~gs.changed) =>
          <<gs.auth, gs.ingame>> = Counts(gs.snapReg, gs.snapState)

\* C30 as stated: the three counts are those of one moment of the call.
C30_StatsFromOneSnapshot ==
    /\ StatsBounds
    /\ gs.pc = "returned" => <<gs.auth, gs.ingame>> \in gs.snaps

\* Two records, one in CharacterSelection and one in InGame, counted while
\* nothing changed.
C30_Witness ==
    /\ gs.pc = "returned"
    /\ ~gs.changed
    /\ gs.total = 2
    /\ gs.auth = 2
    /\ gs.ingame = 1

\* The step of connection c's driver on a failed read.
ReadErrorStep(c) == pcDriver[c] = "read" /\ pcDriver'[c] = "done"

\* A driver waiting in its read goes on to a handler only with a line read;
\* on a failed read it runs no handler (nothing is sent, no store is
\* written, no field but those Close sets is touched) and leaves the loop
\* with the record closed.
ReadErrorEndsDriver ==
    \A c \in Conns :
        /\ pcDriver[c] = "read" => pcDriver'[c] \in {"read", "handle", "done"}
        /\ pcDriver'[c] = "handle" => pcDriver[c] \in {"read", "handle"}
        /\ ReadErrorStep(c) =>
             /\ ~IsConnected(client'[c])
             /\ client'[c] = Close(client[c])
             /\ sent'[c] = sent[c]
             /\ line'[c] = line[c]
             /\ dispatched'[c] = dispatched[c]
             /\ players' = players
             /\ characters' = characters

\* HandleClient has returned only on a closed record.
ReturnedClosed ==
    \A c \in Conns : pcDriver[c] = "done" => ~IsConnected(client[c])

\* C31: on a read error, in any state, the driver calls no handler for that
\* read and leaves its loop, and whenever HandleClient has returned the
\* record is closed.
C31_ReadErrorClosesDriver == []ReturnedClosed /\ [][ReadErrorEndsDriver]_vars

\* The read of a record in InGame failed, after the select that took it
\* there, with no other task having closed it: HandleClient has returned
\* and the record is closed.
C31_Witness ==
    /\ pcDriver[1] = "done"
    /\ dispatched[1] = StateCharacterSelection
    /\ client[1].characterID = "ch1"
    /\ 1 \in clients
    /\ pcStop = "idle"
    /\ ~IsConnected(client[1])
    /\ client[1].streamCloses = 1

\* C32: once a record has been closed, by the reaper, by Stop or by a
\* registration that evicts it, the read its driver is blocked in fails, and
\* the driver leaves its loop and returns: no driver stays blocked on a
\* closed record.
C32_ClosedRecordEndsDriver ==
    \A c \in Conns :
        (c \in created /\ ~IsConnected(client[c]))
            ~> (tpc[DriverTask(c)] = "done")

\* RegisterPlayerClient has just closed the record registered for the
\* player while that record's driver was waiting in its read.
C32_Witness ==
    /\ tpc[DriverTask(1)] = "read"
    /\ tpc[TCaller] = "registerCloseHeld"
    /\ tcur[TCaller] = 1
    /\ ~IsConnected(client[1])
    /\ client[1].streamCloses = 1

\* C33: the reaper closes a connected record only if it is idle at the moment
\* RemoveClient runs for it: a record that is connected and has been active
\* within the timeout is not closed by the reaper's removals.
C33_ReaperClosesOnlyIdle ==
    [][\A c \in Conns :
         (/\ pcReaper = "removing"
          /\ c \in toRemove
          /\ c \notin toRemove'
          /\ IsConnected(client[c])
          /\ ~IsConnected(client'[c]))
         => IsIdle(client[c])]_vars

\* C34: a connection whose peer has stopped reading, so that a Send to it
\* does not return, blocks no other connection and not the registry: no task
\* that holds the registry lock is waiting for the record lock of a
\* connection whose driver is inside such a Send.
C34_StalledPeerBlocksNoRegistryHolder ==
    \A t \in Tasks, c \in Conns :
        ~(/\ c \in stalled
          /\ tpc[DriverTask(c)] = "sending"
          /\ Wants(t) # NoLock
          /\ Wants(t).lock = c
          /\ t \in Holders(RegistryMutex))

\* The states a connection is in once it has authenticated.
AuthenticatedStates == {StateCharacterSelection, StateInGame}

\* Connection c has completed a login or an account creation.
HasAuthenticated(c) == \E i \in DOMAIN authOrder : authOrder[i] = c

\* A record in CharacterSelection or InGame belongs to a connection that has
\* authenticated, and its playerID is the id of a stored player.
AuthenticatedHasPlayer ==
    \A c \in Conns :
        client[c].state \in AuthenticatedStates =>
            /\ HasAuthenticated(c)
            /\ client[c].playerID # ""
            /\ FoundByID(client[c].playerID, FALSE)

\* Whatever the stores and the hash do, the handler about to run takes a
\* connection that has not authenticated into CharacterSelection or InGame
\* only from Authenticating, on a password that matches the credential of
\* the player of its playerID, or from ConfirmingPassword, by storing a new
\* player with the password entered, whose id becomes the playerID.
EntryNeedsCredential ==
    \A c \in Conns :
        (pcDriver[c] = "handle" /\ ~HasAuthenticated(c)) =>
            \A dbErr \in BOOLEAN, hashErr \in BOOLEAN :
                LET r  == client[c]
                    s  == dispatched[c]
                    l  == line[c]
                    r2 == Handled(r, s, l, dbErr, hashErr)
                    st == createAccountStore(r, hashErr, dbErr)
                IN  r2.state \in AuthenticatedStates =>
                      \/ /\ s = StateAuthenticating
                         /\ r.playerID # ""
                         /\ FoundByID(r.playerID, dbErr)
                         /\ PasswordMatches(PlayerByID(r.playerID).password,
                                            TrimSpace(l))
                         /\ r2.playerID = r.playerID
                      \/ /\ s = StateConfirmingPassword
                         /\ players[r.tempUsername] = NoPlayer
                         /\ st[r.tempUsername].id = NewPlayerID
                         /\ st[r.tempUsername].password = TrimSpace(l)
                         /\ r2.playerID = NewPlayerID

\* Only a handler takes a record into CharacterSelection or InGame, the
\* connection is then recorded as authenticated, and from then on its
\* playerID does not change.
EntryOnlyByHandler ==
    \A c \in Conns :
        /\ (/\ client'[c].state \in AuthenticatedStates
            /\ client[c].state \notin AuthenticatedStates)
           => (pcDriver[c] = "handle" /\ pcDriver'[c] = "loop")
        /\ (HasAuthenticated(c) /\ c \in clients')
           => client'[c].playerID = client[c].playerID

\* C35: a connection is in CharacterSelection or InGame only after a
\* password that matched the stored credential of the player of its
\* playerID, or after the creation of a new account; in both states the
\* playerID is non-empty and names that player.
C35_NoAuthenticationBypass ==
    /\ [](AuthenticatedHasPlayer /\ EntryNeedsCredential)
    /\ [][EntryOnlyByHandler]_vars

\* A connection in CharacterSelection under the account it has just created.
C35_Witness ==
    /\ client[1].state = StateCharacterSelection
    /\ client[1].playerID = NewPlayerID
    /\ HasAuthenticated(1)
    /\ \E u \in Usernames : players[u] # NoPlayer /\ players[u].id = NewPlayerID

\* C36: every line handed to the handler of Authenticating or
\* ConfirmingPassword was read by ReadPassword, and every line handed to the
\* handler of another state was read by ReadLine, with the state sampled
\* before the read and again after it and any task closing the record in
\* between.
C36_PasswordReadInPasswordMode ==
    \A j \in DOMAIN hc.log :
        hc.log[j].ev = "start" =>
            /\ hc.log[j].idx \in DOMAIN hc.modes
            /\ (hc.modes[hc.log[j].idx] = "password")
                 <=> (hc.log[j].handler \in PasswordStates)

\* A name and an email read by ReadLine and handled in Connected and
\* CreatingAccount, then a password read by ReadPassword and handled in
\* ConfirmingPassword.
C36_Witness ==
    /\ hc.modes = <<"line", "line", "password">>
    /\ Len(hc.log) >= 8
    /\ hc.log[2] = Event("start", 1, StateConnected)
    /\ hc.log[5] = Event("start", 2, StateCreatingAccount)
    /\ hc.log[8] = Event("start", 3, StateConfirmingPassword)

\* A handler call of connection c, on an open or a closed record.
HandlerCall(c) == pcDriver[c] = "handle" /\ pcDriver'[c] = "loop"

\* The text of the sends of a handler call, failed ones included.
CreateFailedText ==
    <<"Failed to create account. Username might already be taken.", "\r\n">>

\* The player store's create was called in the step: a player was stored, or
\* connection c was told that the store refused.
CreateCalled(c) ==
    \/ players' # players
    \/ /\ HandlerCall(c)
       /\ \E i \in DOMAIN sent'[c] : sent'[c][i].wrote = CreateFailedText

\* The pending password of a record in ConfirmingPassword is empty or at
\* least 6 characters long.
PendingPasswordLongEnough ==
    \A c \in Conns :
        client[c].state = StateConfirmingPassword =>
            client[c].tempPassword = "" \/ Len(client[c].tempPassword) >= 6

\* A pending password is set only by the handler of ConfirmingPassword, from
\* the entry it is called with and with no password pending; the call that
\* finds a password pending leaves none pending on an open record, so that
\* the pending password is that of the entry just before; the store's create
\* is called only in such a call whose entry is the pending password, and
\* the player it stores has that password.
ConfirmedPasswordSteps(trimmed) ==
    \A c \in Conns :
        LET r  == client[c]
            r2 == client'[c]
            pw == PasswordOf(line[c], trimmed)
        IN
        /\ (c \in created /\ r2.tempPassword # r.tempPassword /\ r2.tempPassword # "")
           => /\ HandlerCall(c)
              /\ dispatched[c] = StateConfirmingPassword
              /\ r.tempPassword = ""
              /\ r2.tempPassword = pw
              /\ Len(pw) >= 6
        /\ (HandlerCall(c) /\ dispatched[c] = StateConfirmingPassword
            /\ r.tempPassword # "")
           => (r2.tempPassword = "" \/ ~IsConnected(r2))
        /\ (pcDriver[c] # "none" /\ CreateCalled(c))
           => /\ HandlerCall(c)
              /\ dispatched[c] = StateConfirmingPassword
              /\ r.tempPassword # ""
              /\ Len(r.tempPassword) >= 6
              /\ pw = r.tempPassword
              /\ players' # players =>
                   players'[r.tempUsername].password = r.tempPassword

\* C37: an account is created only with a password of at least 6 characters
\* entered twice in consecutive entries that are equal after TrimSpace: the
\* pending password in ConfirmingPassword is empty or at least 6 characters
\* long, and the store's create is called only when the entry, trimmed,
\* equals a non-empty pending password.
C37_AccountNeedsConfirmedPassword ==
    []PendingPasswordLongEnough /\ [][ConfirmedPasswordSteps(TRUE)]_vars

\* C37 as stated: the two entries are identical as entered.
C37_AccountNeedsIdenticalEntries ==
    []PendingPasswordLongEnough /\ [][ConfirmedPasswordSteps(FALSE)]_vars

\* An account has been stored with the password entered twice, and the
\* record that entered it has no password pending.
C37_Witness ==
    /\ players["mallory"] # NoPlayer
    /\ players["mallory"].password = "secret1"
    /\ dispatched[1] = StateConfirmingPassword
    /\ client[1].tempPassword = ""
    /\ client[1].playerID = NewPlayerID

\* A record in InGame carries the id of a stored character that its player
\* owns.
InGameHasOwnCharacter ==
    \A c \in Conns :
        client[c].state = StateInGame =>
            /\ client[c].characterID # ""
            /\ \E n \in CharNames :
                 /\ characters[n] # NoCharacter
                 /\ characters[n].id = client[c].characterID
                 /\ characters[n].owner = client[c].playerID

\* The handler about to run on a line dispatched in InGame finds a character
\* id: whatever the engine does, it answers with the engine's response or
\* error and the prompt, does not send "Error: No character selected." and
\* leaves the record as it was, not in CharacterSelection.
InGameLineForwarded ==
    \A c \in Conns :
        (pcDriver[c] = "handle" /\ dispatched[c] = StateInGame) =>
            \A engineErr \in BOOLEAN :
                LET r     == client[c]
                    calls == HandledSends(r, StateInGame, line[c], engineErr, FALSE)
                IN  /\ GetCharacterID(r) # ""
                    /\ Handled(r, StateInGame, line[c], engineErr, FALSE) = r
                    /\ Len(calls) = 2
                    /\ calls[1] \in {Sf("Error: %v", "engine error"),
                                     Sf("response to %s", line[c])}
                    /\ calls[2] = P("> ")

\* C38: a connection in InGame has a non-empty characterID, the id of a
\* character owned by its playerID; every line handled in InGame is forwarded
\* to the engine and the fallback to CharacterSelection is never taken.
C38_InGameHasCharacter == InGameHasOwnCharacter /\ InGameLineForwarded

\* A line is about to be handled in InGame on a record that carries the
\* character its player selected.
C38_Witness ==
    /\ pcDriver[1] = "handle"
    /\ dispatched[1] = StateInGame
    /\ line[1] = "look"
    /\ client[1].state = StateInGame
    /\ client[1].playerID = "p1"
    /\ client[1].characterID = "ch1"

\* handlePasswordConfirmation on a connected record with a password pending
\* and an entry that is not that password: only the pending password is
\* cleared, no player is stored, and the mismatch and the password prompt are
\* sent.
MismatchSteps(trimmed) ==
    \A c \in Conns :
        (/\ HandlerStep(c)
         /\ dispatched[c] = StateConfirmingPassword
         /\ client[c].tempPassword # ""
         /\ PasswordOf(line[c], trimmed) # client[c].tempPassword)
        => /\ client'[c] = [client[c] EXCEPT !.tempPassword = ""]
           /\ client'[c].state = StateConfirmingPassword
           /\ client'[c].tempUsername = client[c].tempUsername
           /\ client'[c].tempEmail = client[c].tempEmail
           /\ players' = players
           /\ SentText(sent'[c]) =
                << <<"Passwords do not match.", "\r\n">>,
                   <<"Please choose a password (minimum 6 characters):", "\r\n">> >>

\* With no password pending, the entry about to be handled in
\* ConfirmingPassword is a first entry: it becomes the pending password when
\* it is long enough and is refused otherwise, and no account is created.
NextEntryIsFirstEntry ==
    \A c \in Conns :
        (/\ pcDriver[c] = "handle"
         /\ dispatched[c] = StateConfirmingPassword
         /\ client[c].tempPassword = "")
        => \A dbErr \in BOOLEAN, hashErr \in BOOLEAN :
             LET r  == client[c]
                 pw == TrimSpace(line[c])
                 r2 == Handled(r, StateConfirmingPassword, line[c], dbErr, hashErr)
             IN  /\ r2 = IF Len(pw) < 6 THEN r ELSE [r EXCEPT !.tempPassword = pw]
                 /\ ~ConfirmationMatches(r, line[c])
                 /\ createAccountStore(r, TRUE, dbErr) = players

\* C39: in ConfirmingPassword, a second entry that after TrimSpace is not the
\* pending password clears only the pending password: tempUsername and
\* tempEmail are unchanged, the state stays ConfirmingPassword, no account is
\* created, and the next entry is treated as a first entry.
C39_MismatchClearsOnlyPassword ==
    []NextEntryIsFirstEntry /\ [][MismatchSteps(TRUE)]_vars

\* C39 as stated: the second entry as entered is not the pending password.
C39_MismatchAsEntered ==
    []NextEntryIsFirstEntry /\ [][MismatchSteps(FALSE)]_vars

\* After a mismatch the record still carries the name and the email of the
\* account being created, with no password pending.
C39_Witness ==
    /\ pcDriver[1] = "loop"
    /\ IsConnected(client[1])
    /\ dispatched[1] = StateConfirmingPassword
    /\ client[1].state = StateConfirmingPassword
    /\ client[1].tempUsername = "bob"
    /\ client[1].tempEmail = "b@c.com"
    /\ client[1].tempPassword = ""
    /\ SentText(sent[1])[1] = <<"Passwords do not match.", "\r\n">>

\* C7: RemoveClient(id) removes id from the connection-id map, closes the
\* record, and leaves the player-id entry of every other record unchanged;
\* on an id that is not registered it changes nothing.
C7_RemoveClearsOnlyOwnEntry ==
    [][\A id \in Conns :
        RemoveClient(id) =>
            /\ id \notin clients'
            /\ id \in clients => ~client'[id].connected
            /\ \A p \in PlayerIDs :
                 playerClients[p] # id => playerClients'[p] = playerClients[p]
            /\ id \notin clients => UNCHANGED <<clients, playerClients, client>>]_vars

\* C8: a record whose read loop has exited is destroyed: it is in neither
\* registry map and its stream is closed. Stated for the moment at which the
\* reaper too has returned, so that no task is left that could still remove
\* the record.
C8_ExitedRecordDestroyed ==
    \A c \in created :
        (pcDriver[c] = "done" /\ pcReaper = "returned")
           => /\ c \notin clients
              /\ \A p \in PlayerIDs : playerClients[p] # c
              /\ ~client[c].connected

\* C9: of two connections that authenticated as the same player id one after
\* the other, the first is disconnected once the second has completed
\* authentication.
C9_SecondLoginEvictsFirst ==
    \A i, j \in DOMAIN authOrder :
        (i < j /\ client[authOrder[i]].playerID = client[authOrder[j]].playerID)
           => ~client[authOrder[i]].connected

\* C10: once Stop has returned, every record in the connection registry is
\* disconnected.
C10_StopClosesEveryRecord ==
    pcStop = "returned" => \A c \in clients : ~client[c].connected

====
